---- MODULE Spec2Model ----
(***************************************************************************)
(* Academic-metric aggregation (students/models.py, grading/               *)
(* repeat_policy.py, academics/graduation.py) and tamper-evident           *)
(* transcript verification (reporting/security_features.py) of the         *)
(* college-data application.                                               *)
(*                                                                         *)
(* Floats are carried in hundredths: a grade point of 4.0 is 400 and a     *)
(* CGPA of 3.00 is 300.  Grade points of the modelled scales are multiples *)
(* of 0.5 and a student carries fewer than 20 units, so every quotient     *)
(* points / units that lies exactly between two hundredths is a binary     *)
(* fraction, and Python's round(x, 2) is round-half-to-even on it.         *)
(***************************************************************************)
EXTENDS Integers, Sequences, FiniteSets

VARIABLES
    enrollments,    \* grading.Enrollment rows of the student, in id order: <<offering id, ...>>
    grades,         \* grading.Grade rows: enrollment id -> [ca_score, exam_score, total_score, grade, status]
    scale,          \* grading.GradingSettings rows, ordered by -min_score
    policy,         \* configuration.AcademicPolicySettings row pk=1
    call,           \* the last operation when it was a computation or a verification, with
                    \* what it returned or left on the object it was called on
    records,        \* reporting.TranscriptVerificationRecord rows: verification code -> row
    cache,          \* django cache: verification code -> [data, expires]
    now,            \* timezone.now(), in ticks
    issued,         \* what create_secure_transcript_data was asked and answered, per code
    prerequisites,  \* academics.Prerequisite rows, in the order a queryset returns them
    student,        \* the identity fields of the students.Student row
    batch,          \* a generate_batch_transcripts call: its futures, its results, where it is
    registration    \* one CourseOffering, the students enrolled in it, and where each
                    \* student's enroll_student command is

dataVars == <<enrollments, grades, scale, policy, prerequisites, student>>
verificationVars == <<records, cache, now, issued>>
processVars == <<batch, registration>>
vars == <<enrollments, grades, scale, policy, call, records, cache, now, issued, prerequisites,
         student, batch, registration>>

-----------------------------------------------------------------------------
(* Bounds *)

MaxEnrollments == 2

-----------------------------------------------------------------------------
(* Catalogue: courses, sessions and course offerings the student may take *)

CourseCodes == {"POL101", "CS201"}

CourseUnits(code) == IF code = "POL101" THEN 3 ELSE 2

Session2023 == <<"2", "0", "2", "3", "/", "2", "0", "2", "4">>
Session2024 == <<"2", "0", "2", "4", "/", "2", "0", "2", "5">>
SessionResit == <<"R", "2", "0", "2", "4">>
SessionRain == <<"R", "a", "i", "n", "2", "4">>

\* CourseOffering rows: the second and third are one term (2024, FIRST) under two session names
Offerings ==
    <<[course |-> "POL101", session |-> 1, session_name |-> Session2023, semester |-> "SECOND"],
      [course |-> "POL101", session |-> 2, session_name |-> Session2024, semester |-> "FIRST"],
      [course |-> "POL101", session |-> 3, session_name |-> SessionResit, semester |-> "FIRST"],
      [course |-> "CS201",  session |-> 4, session_name |-> SessionRain, semester |-> "RESIT"]>>

OfferingIds == 1..Len(Offerings)

\* the offerings the student registers for, term after term, through the enrolment views
TakenOfferings == {1, 2, 4}

\* Enrollment.course / .session / .semester properties
EnrollmentOffering(e) == Offerings[enrollments[e]]
EnrollmentCourse(e) == EnrollmentOffering(e).course
EnrollmentUnits(e) == CourseUnits(EnrollmentCourse(e))

EnrollmentIds == 1..Len(enrollments)

\* the Student row: student_id, the names, and the names of the rows its entry_level,
\* current_level and current_session point to
StudentS1 ==
    [student_id |-> "S1", first_name |-> "Ada", last_name |-> "Obi",
     entry_level |-> "100 Level", current_level |-> "100 Level",
     current_session |-> "2023/2024"]

-----------------------------------------------------------------------------
(* Grade and GradingSettings *)

STATUS_DRAFT == "DRAFT"
STATUS_SUBMITTED == "SUBMITTED"
STATUS_APPROVED == "APPROVED"
STATUS_REJECTED == "REJECTED"
Statuses == {STATUS_DRAFT, STATUS_SUBMITTED, STATUS_APPROVED, STATUS_REJECTED}

ScaleACF ==
    <<[grade_name |-> "A", min_score |-> 90, grade_point |-> 400],
      [grade_name |-> "C", min_score |-> 70, grade_point |-> 200],
      [grade_name |-> "F", min_score |-> 0,  grade_point |-> 0]>>

\* two rows with one grade name (grading_settings_create does not refuse it)
ScaleDup ==
    <<[grade_name |-> "A", min_score |-> 90, grade_point |-> 400],
      [grade_name |-> "A", min_score |-> 70, grade_point |-> 200],
      [grade_name |-> "F", min_score |-> 0,  grade_point |-> 0]>>

\* with no rows at all, every grade gets the letter 'N/A', which no row resolves
Scales == {<< >>, ScaleACF, ScaleDup}

\* (ca_score, exam_score) pairs a teacher enters
ScoreInputs == {<<0, 0>>, <<10, 60>>, <<20, 70>>}

\* Grade.save: the letter of the first band, by descending min_score, that the total reaches
AssignedGrade(total, sc) ==
    LET hits == {i \in 1..Len(sc) : total >= sc[i].min_score}
    IN IF hits = {} THEN "N/A"
       ELSE sc[CHOOSE i \in hits : \A j \in hits : i <= j].grade_name

\* GradingSettings.objects.filter(grade_name=name)
ScaleRows(name) == {i \in 1..Len(scale) : scale[i].grade_name = name}

\* .first() of that queryset under Meta.ordering = ['-min_score']
ScaleFirst(name) == scale[CHOOSE i \in ScaleRows(name) : \A j \in ScaleRows(name) : i <= j]

HasGrade(e) == e \in DOMAIN grades

-----------------------------------------------------------------------------
(* grading/repeat_policy.py *)

Digits == {"0", "1", "2", "3", "4", "5", "6", "7", "8", "9"}

DigitValue(c) ==
    CASE c = "0" -> 0 [] c = "1" -> 1 [] c = "2" -> 2 [] c = "3" -> 3 [] c = "4" -> 4
      [] c = "5" -> 5 [] c = "6" -> 6 [] c = "7" -> 7 [] c = "8" -> 8 [] c = "9" -> 9

SEMESTER_ORDER(semester) ==
    CASE semester = "FIRST" -> 1
      [] semester = "SECOND" -> 2
      [] semester = "SUMMER" -> 3
      [] OTHER -> 0

\* re.search(r'(\d{4})', session_name): the leftmost run of four digits, as an int
_session_sort_key(session_name) ==
    IF session_name = << >> THEN 0
    ELSE LET starts == {i \in 1..(Len(session_name) - 3) :
                            \A k \in 0..3 : session_name[i + k] \in Digits}
         IN IF starts = {} THEN 0
            ELSE LET i == CHOOSE s \in starts : \A t \in starts : s <= t
                 IN 1000 * DigitValue(session_name[i]) + 100 * DigitValue(session_name[i + 1])
                    + 10 * DigitValue(session_name[i + 2]) + DigitValue(session_name[i + 3])

\* the term key with the semester compared before the year
term_sort_key_semester_first(e) ==
    <<SEMESTER_ORDER(EnrollmentOffering(e).semester),
      _session_sort_key(EnrollmentOffering(e).session_name)>>

term_sort_key(e) ==
    <<_session_sort_key(EnrollmentOffering(e).session_name),
      SEMESTER_ORDER(EnrollmentOffering(e).semester)>>

\* -1.0 when there is no grade, no letter or no scale entry
grade_point_for_enrollment(e) ==
    IF ~HasGrade(e) \/ grades[e].grade = "" THEN -100
    ELSE IF ScaleRows(grades[e].grade) = {} THEN -100
    ELSE ScaleFirst(grades[e].grade).grade_point

\* Python's ordering of tuples of numbers of one length
RECURSIVE TupleLess(_, _)
TupleLess(a, b) ==
    IF a = << >> THEN FALSE
    ELSE IF Head(a) # Head(b) THEN Head(a) < Head(b)
    ELSE TupleLess(Tail(a), Tail(b))

TupleLeq(a, b) == a = b \/ TupleLess(a, b)

\* the BEST key without its tie-break
best_key_no_tiebreak == [e \in 1..Len(enrollments) |-> <<grade_point_for_enrollment(e)>>]

\* key=term_sort_key
latest_key == [e \in 1..Len(enrollments) |-> term_sort_key(e)]

\* key=lambda x: (grade_point_for_enrollment(x), term_sort_key(x))
best_key ==
    [e \in 1..Len(enrollments) |-> <<grade_point_for_enrollment(e)>> \o term_sort_key(e)]

\* max(attempts, key=key): the first element, in list order, whose key no other exceeds
PyMax(attempts, key) ==
    attempts[CHOOSE i \in 1..Len(attempts) :
                /\ \A j \in 1..Len(attempts) : TupleLeq(key[attempts[j]], key[attempts[i]])
                /\ \A j \in 1..(i - 1) : key[attempts[j]] # key[attempts[i]]]

\* (repeat_policy or 'ALL').upper(); None is the string "None" here
NormalizePolicy(repeat_policy) ==
    CASE repeat_policy \in {"None", ""} -> "ALL"
      [] repeat_policy \in {"all", "All"} -> "ALL"
      [] repeat_policy = "latest" -> "LATEST"
      [] repeat_policy = "best" -> "BEST"
      [] repeat_policy = "bogus" -> "BOGUS"
      [] OTHER -> repeat_policy

\* by_course[code]: the attempts at one course, in list order
RECURSIVE AttemptsAt(_, _)
AttemptsAt(enroll_list, code) ==
    IF enroll_list = << >> THEN << >>
    ELSE (IF EnrollmentCourse(Head(enroll_list)) = code THEN <<Head(enroll_list)>> ELSE << >>)
         \o AttemptsAt(Tail(enroll_list), code)

SeqRange(s) == {s[i] : i \in 1..Len(s)}

\* a policy that is none of the three and drops every attempt
UnknownPolicyDrops(attempts) == {}

\* unknown policy => safe default: chosen.update(e.id for e in attempts)
UnknownPolicy(attempts) == SeqRange(attempts)

select_enrollments_for_gpa(enroll_list, repeat_policy) ==
    LET p == NormalizePolicy(repeat_policy)
        codes == {EnrollmentCourse(e) : e \in SeqRange(enroll_list)}
    IN IF p = "ALL" THEN SeqRange(enroll_list)
       ELSE UNION {
            IF p = "LATEST" THEN {PyMax(AttemptsAt(enroll_list, c), latest_key)}
            ELSE IF p = "BEST" THEN {PyMax(AttemptsAt(enroll_list, c), best_key)}
            ELSE UnknownPolicy(AttemptsAt(enroll_list, c)) : c \in codes}

-----------------------------------------------------------------------------
(* configuration/models.py: AcademicPolicySettings *)

REPEAT_ALL == "ALL"
REPEAT_LATEST == "LATEST"
REPEAT_BEST == "BEST"

DefaultPolicy ==
    [exists |-> TRUE, repeat_policy |-> REPEAT_ALL, require_approved_for_metrics |-> FALSE]

NoPolicy ==
    [exists |-> FALSE, repeat_policy |-> REPEAT_ALL, require_approved_for_metrics |-> FALSE]

\* get_solo(): get_or_create(pk=1); the row it returns, which then exists
get_solo == IF policy.exists THEN policy ELSE DefaultPolicy

-----------------------------------------------------------------------------
(* students/models.py: Student.update_academic_metrics *)

NoMetrics ==
    [current_cgpa |-> 0, total_units_attempted |-> 0,
     total_units_passed |-> 0, total_sessions_completed |-> 0]

\* round(n / d, 2) in hundredths, for n / d itself in hundredths: ties go to the even digit
RoundHalfEven(n, d) ==
    LET q == n \div d
        r == n % d
    IN IF 2 * r < d THEN q
       ELSE IF 2 * r > d THEN q + 1
       ELSE IF q % 2 = 0 THEN q ELSE q + 1

\* the metric fields of the Student object the call is made on: those the call before
\* left on it, or the field defaults of a student loaded fresh
StudentFields == IF call.op = "update_academic_metrics" THEN call.student ELSE NoMetrics

\* running totals that start from the fields the object already holds
LoopStartCarried ==
    [points |-> 0, units |-> StudentFields.total_units_attempted,
     passed |-> StudentFields.total_units_passed, sessions |-> {}, raised |-> FALSE]

\* the running totals before the loop
LoopStart == [points |-> 0, units |-> 0, passed |-> 0, sessions |-> {}, raised |-> FALSE]

\* the loop body without its except clause: DoesNotExist leaves the call
LoopNoGradeUncaught(acc, e, counted_ids) == [acc EXCEPT !.raised = TRUE]

\* except (Grade.DoesNotExist, GradingSettings.DoesNotExist)
LoopNoGrade(acc, e, counted_ids) ==
    [acc EXCEPT !.units = IF e \in counted_ids THEN @ + EnrollmentUnits(e) ELSE @,
                !.sessions = @ \cup {EnrollmentOffering(e).session}]

\* the try-body with the test `enrollment.id in counted_ids` left out
LoopGradedCountsAll(acc, e, counted_ids) ==
    LET grade_point == ScaleFirst(grades[e].grade).grade_point
        course_units == EnrollmentUnits(e)
    IN [acc EXCEPT
            !.points = @ + grade_point * course_units,
            !.units = @ + course_units,
            !.sessions = @ \cup {EnrollmentOffering(e).session},
            !.passed = IF grade_point > 0 THEN @ + course_units ELSE @]

\* try-body of the loop for a grade that passes the approval gate and has one scale row
LoopGraded(acc, e, counted_ids) ==
    LET grade_point == ScaleFirst(grades[e].grade).grade_point
        course_units == EnrollmentUnits(e)
    IN [acc EXCEPT
            !.points = IF e \in counted_ids THEN @ + grade_point * course_units ELSE @,
            !.units = IF e \in counted_ids THEN @ + course_units ELSE @,
            !.sessions = @ \cup {EnrollmentOffering(e).session},
            !.passed = IF grade_point > 0 THEN @ + course_units ELSE @]

\* the loop body with the approval gate left out
LoopBodyNoGate(acc, e, counted_ids, require_approved) ==
    IF acc.raised THEN acc
    ELSE IF ~HasGrade(e) THEN LoopNoGrade(acc, e, counted_ids)
    ELSE IF ScaleRows(grades[e].grade) = {} THEN LoopNoGrade(acc, e, counted_ids)
    ELSE IF Cardinality(ScaleRows(grades[e].grade)) > 1
         THEN [acc EXCEPT !.raised = TRUE]
    ELSE LoopGraded(acc, e, counted_ids)

\* one pass of `for enrollment in enrollments`
LoopBody(acc, e, counted_ids, require_approved) ==
    IF acc.raised THEN acc
    ELSE IF ~HasGrade(e) THEN LoopNoGrade(acc, e, counted_ids)
    ELSE IF require_approved /\ grades[e].status # STATUS_APPROVED THEN acc
    ELSE IF ScaleRows(grades[e].grade) = {} THEN LoopNoGrade(acc, e, counted_ids)
    ELSE IF Cardinality(ScaleRows(grades[e].grade)) > 1
         THEN [acc EXCEPT !.raised = TRUE]    \* GradingSettings.MultipleObjectsReturned
    ELSE LoopGraded(acc, e, counted_ids)

RECURSIVE Loop(_, _, _, _)
Loop(acc, enroll_list, counted_ids, require_approved) ==
    IF enroll_list = << >> THEN acc
    ELSE Loop(LoopBody(acc, Head(enroll_list), counted_ids, require_approved),
              Tail(enroll_list), counted_ids, require_approved)

EnrollmentList == [e \in EnrollmentIds |-> e]

\* the totals update_academic_metrics reaches for the rows and the policy given
Totals(pol) ==
    Loop(LoopStart, EnrollmentList,
         select_enrollments_for_gpa(EnrollmentList, pol.repeat_policy),
         pol.require_approved_for_metrics)

\* the four fields it assigns from the totals
MetricsOf(t) ==
    [current_cgpa |-> IF t.units > 0 THEN RoundHalfEven(t.points, t.units) ELSE 0,
     total_units_attempted |-> t.units,
     total_units_passed |-> t.passed,
     total_sessions_completed |-> Cardinality(t.sessions)]

\* Student.Meta.constraints, checked by the database on save
ConstraintsHold(m) ==
    /\ m.current_cgpa >= 0 /\ m.current_cgpa <= 400
    /\ m.total_units_passed <= m.total_units_attempted

\* the Student fields are assigned only when the loop did not raise; save() is refused
\* by the database when a constraint fails, after the object's fields were assigned
update_academic_metrics(save) ==
    LET t == Totals(get_solo)
        m == MetricsOf(t)
    IN /\ policy' = get_solo
       /\ call' = IF t.raised
                  THEN [op |-> "update_academic_metrics",
                        status |-> "MultipleObjectsReturned",
                        policy_row |-> policy.exists,
                        again |-> call.op = "update_academic_metrics",
                        before |-> StudentFields, student |-> StudentFields,
                        total_grade_points |-> 0]
                  ELSE [op |-> "update_academic_metrics",
                        status |-> IF save /\ ~ConstraintsHold(m) THEN "IntegrityError" ELSE "ok",
                        policy_row |-> policy.exists,
                        again |-> call.op = "update_academic_metrics",
                        before |-> StudentFields, student |-> m,
                        total_grade_points |-> t.points]
       /\ UNCHANGED <<enrollments, grades, scale, prerequisites, student, verificationVars, processVars>>

-----------------------------------------------------------------------------
(* academics/graduation.py *)

\* Python's None where a grade point is expected; grade points are never negative
NoGradePoint == -1

\* academics.Program rows with their CurriculumCourse rows that are compulsory (one row
\* per level and semester the course is listed at) and their classification thresholds
CLASS_SCHEME_BSC == "BSC"
CLASS_SCHEME_ND == "ND"

NoProgram ==
    [exists |-> FALSE, min_units_to_graduate |-> 0, classification_scheme |-> CLASS_SCHEME_BSC,
     compulsory |-> << >>, classification_thresholds |-> << >>]

ProgramBSc ==
    [exists |-> TRUE, min_units_to_graduate |-> 5, classification_scheme |-> CLASS_SCHEME_BSC,
     compulsory |-> <<"POL101", "CS201", "POL101">>, classification_thresholds |-> << >>]

ProgramND ==
    [exists |-> TRUE, min_units_to_graduate |-> 0, classification_scheme |-> CLASS_SCHEME_ND,
     compulsory |-> << >>, classification_thresholds |-> << >>]

\* thresholds in Meta.ordering = ['-min_cgpa']
ProgramOwnBands ==
    [exists |-> TRUE, min_units_to_graduate |-> 3, classification_scheme |-> CLASS_SCHEME_BSC,
     compulsory |-> <<"POL101">>,
     classification_thresholds |-> <<[label |-> "Honours", min_cgpa |-> 300],
                                     [label |-> "Ordinary", min_cgpa |-> 100]>>]

\* a program with a unit minimum above one pass of its compulsory course, and a ladder of
\* its own whose last band does not start at 0.0
ProgramHND ==
    [exists |-> TRUE, min_units_to_graduate |-> 6, classification_scheme |-> CLASS_SCHEME_ND,
     compulsory |-> <<"POL101">>,
     classification_thresholds |-> <<[label |-> "Merit", min_cgpa |-> 300],
                                     [label |-> "Pass", min_cgpa |-> 150]>>]

Programs == {NoProgram, ProgramBSc, ProgramND, ProgramOwnBands, ProgramHND}

LegacyBSc ==
    <<[label |-> "First Class", min_cgpa |-> 350],
      [label |-> "Second Class Upper", min_cgpa |-> 300],
      [label |-> "Second Class Lower", min_cgpa |-> 200],
      [label |-> "Third Class", min_cgpa |-> 100],
      [label |-> "Fail", min_cgpa |-> 0]>>

LegacyND ==
    <<[label |-> "Distinction", min_cgpa |-> 350],
      [label |-> "Upper Credit", min_cgpa |-> 300],
      [label |-> "Lower Credit", min_cgpa |-> 250],
      [label |-> "Pass", min_cgpa |-> 200],
      [label |-> "Fail", min_cgpa |-> 0]>>

_grade_point(e, require_approved) ==
    IF ~HasGrade(e) \/ grades[e].grade = "" THEN NoGradePoint
    ELSE IF require_approved /\ grades[e].status # STATUS_APPROVED THEN NoGradePoint
    ELSE IF ScaleRows(grades[e].grade) = {} THEN NoGradePoint
    ELSE ScaleFirst(grades[e].grade).grade_point

RECURSIVE ProgramTotals(_, _, _)
ProgramTotals(acc, enroll_list, require_approved) ==
    IF enroll_list = << >> THEN acc
    ELSE LET e == Head(enroll_list)
             gp == _grade_point(e, require_approved)
             units == EnrollmentUnits(e)
         IN ProgramTotals(IF gp = NoGradePoint THEN acc
                          ELSE [total_points |-> acc.total_points + units * gp,
                                total_units |-> acc.total_units + units],
                          Tail(enroll_list), require_approved)

\* (cgpa, total_units)
compute_cgpa_for_program(require_approved) ==
    LET t == ProgramTotals([total_points |-> 0, total_units |-> 0], EnrollmentList,
                           require_approved)
    IN IF t.total_units = 0 THEN <<0, 0>>
       ELSE <<RoundHalfEven(t.total_points, t.total_units), t.total_units>>

\* passed_course with `gp >= 0` for `gp > 0`
passed_course_any_point(course, require_approved) ==
    \E e \in EnrollmentIds :
        /\ EnrollmentCourse(e) = course
        /\ _grade_point(e, require_approved) # NoGradePoint
        /\ _grade_point(e, require_approved) >= 0

passed_course(course, require_approved) ==
    \E e \in EnrollmentIds :
        /\ EnrollmentCourse(e) = course
        /\ _grade_point(e, require_approved) # NoGradePoint
        /\ _grade_point(e, require_approved) > 0

\* the first band of the ladder that the cgpa exceeds
FirstBandAbove(thresholds, cgpa, fallback) ==
    LET hits == {i \in 1..Len(thresholds) : cgpa > thresholds[i].min_cgpa}
    IN IF hits = {} THEN fallback
       ELSE thresholds[CHOOSE i \in hits : \A j \in hits : i <= j].label

\* the label of the first band of the ladder that the cgpa reaches
FirstBand(thresholds, cgpa, fallback) ==
    LET hits == {i \in 1..Len(thresholds) : cgpa >= thresholds[i].min_cgpa}
    IN IF hits = {} THEN fallback
       ELSE thresholds[CHOOSE i \in hits : \A j \in hits : i <= j].label

classify(program, cgpa) ==
    LET thresholds == program.classification_thresholds
    IN IF thresholds = << >>
       THEN FirstBand(IF program.classification_scheme = CLASS_SCHEME_BSC
                      THEN LegacyBSc ELSE LegacyND, cgpa, "Fail")
       ELSE FirstBand(thresholds, cgpa, thresholds[Len(thresholds)].label)

\* sorted(set(missing)): course codes in string order
CodeOrder == <<"CS201", "POL101">>

SortedCodes(S) == SelectSeq(CodeOrder, LAMBDA c : c \in S)

NoClassification == "None"

\* the GraduationAuditResult
audit_student_graduation(program) ==
    IF ~program.exists
    THEN /\ call' = [op |-> "audit_student_graduation", program |-> program,
                     eligible |-> FALSE, cgpa |-> 0, total_units_earned |-> 0,
                     missing_compulsory_courses |-> << >>,
                     classification |-> NoClassification,
                     notes |-> <<[note |-> "Student has no program assigned"]>>]
         /\ UNCHANGED <<enrollments, grades, scale, policy, prerequisites, student, verificationVars, processVars>>
    ELSE LET require_approved == get_solo.require_approved_for_metrics
             result == compute_cgpa_for_program(require_approved)
             cgpa == result[1]
             total_units == result[2]
             missing == SelectSeq(program.compulsory,
                                  LAMBDA c : ~passed_course(c, require_approved))
             short == /\ program.min_units_to_graduate # 0
                      /\ total_units < program.min_units_to_graduate
             eligible == missing = << >> /\ ~short
         IN /\ policy' = get_solo
            /\ call' = [op |-> "audit_student_graduation", program |-> program,
                        eligible |-> eligible, cgpa |-> cgpa,
                        total_units_earned |-> total_units,
                        missing_compulsory_courses |-> SortedCodes(SeqRange(missing)),
                        classification |-> IF eligible THEN classify(program, cgpa)
                                           ELSE NoClassification,
                        notes |->
                           (IF missing # << >>
                            THEN <<[note |-> "Missing compulsory courses",
                                    courses |-> SortedCodes(SeqRange(missing))]>>
                            ELSE << >>)
                           \o (IF short
                               THEN <<[note |-> "Insufficient units",
                                       total_units |-> total_units,
                                       min_units |-> program.min_units_to_graduate]>>
                               ELSE << >>)]
            /\ UNCHANGED <<enrollments, grades, scale, prerequisites, student, verificationVars, processVars>>

-----------------------------------------------------------------------------
(* Operations that change the rows the metrics are computed from *)

NoCall == [op |-> "none"]

\* no transcript was ever issued
NoVerification ==
    /\ records = << >>
    /\ cache = << >>
    /\ now = 0
    /\ issued = << >>

\* no batch was ever started
NoBatch == [pc |-> "idle"]

\* CourseOffering.capacity is null
NoCapacity == -1

RegistrationStudents == {"S1", "S2", "S3"}

\* an active offering of CS301 for the students' level, without a capacity, nobody enrolled
\* and no enroll_student command running
NoRegistration ==
    [offering |-> [course |-> "CS301", level |-> "100 Level", capacity |-> NoCapacity,
                   is_active |-> TRUE],
     roster |-> {},
     pc |-> [sid \in RegistrationStudents |-> "idle"]]

NoProcess == batch = NoBatch /\ registration = NoRegistration

\* Enrollment.objects.create(student, course_offering); unique_together.  The student
\* registers term after term: Offerings lists the offerings in the order they are taken.
enrollment_create(o) ==
    /\ Len(enrollments) < MaxEnrollments
    /\ \A i \in EnrollmentIds : enrollments[i] < o
    /\ enrollments' = Append(enrollments, o)
    /\ call' = NoCall
    /\ UNCHANGED <<grades, scale, policy, prerequisites, student, verificationVars, processVars>>

\* Grade.save() on a grade with the given scores and status
SavedGrade(ca, exam, status) ==
    [ca_score |-> ca, exam_score |-> exam, total_score |-> ca + exam,
     grade |-> AssignedGrade(ca + exam, scale), status |-> status]

SetGrade(e, g) == [x \in DOMAIN grades \cup {e} |-> IF x = e THEN g ELSE grades[x]]

\* grading/views.py grade_entry, the AJAX POST
grade_entry(e, ca, exam) ==
    /\ e \in EnrollmentIds
    /\ LET g == IF HasGrade(e) THEN grades[e] ELSE SavedGrade(0, 0, STATUS_DRAFT)
       IN IF g.status \notin {STATUS_DRAFT, STATUS_REJECTED}
          THEN UNCHANGED grades
          ELSE grades' = SetGrade(e, SavedGrade(ca, exam, STATUS_DRAFT))
    /\ call' = NoCall
    /\ UNCHANGED <<enrollments, scale, policy, prerequisites, student, verificationVars, processVars>>

\* grading/views.py grade_submit: queryset update of the offering's draft and rejected grades
grade_submit(e) ==
    /\ e \in EnrollmentIds
    /\ HasGrade(e)
    /\ grades[e].status \in {STATUS_DRAFT, STATUS_REJECTED}
    /\ grades' = [grades EXCEPT ![e].status = STATUS_SUBMITTED]
    /\ call' = NoCall
    /\ UNCHANGED <<enrollments, scale, policy, prerequisites, student, verificationVars, processVars>>

\* grading/views.py grade_approve: bulk (queryset update) or single (grade.save())
grade_approve(e, bulk) ==
    /\ e \in EnrollmentIds
    /\ HasGrade(e)
    /\ grades[e].status = STATUS_SUBMITTED
    /\ grades' = [grades EXCEPT ![e] =
                    IF bulk THEN [@ EXCEPT !.status = STATUS_APPROVED]
                    ELSE SavedGrade(@.ca_score, @.exam_score, STATUS_APPROVED)]
    /\ call' = NoCall
    /\ UNCHANGED <<enrollments, scale, policy, prerequisites, student, verificationVars, processVars>>

\* grading/views.py grade_reject
grade_reject(e) ==
    /\ e \in EnrollmentIds
    /\ HasGrade(e)
    /\ grades[e].status = STATUS_SUBMITTED
    /\ grades' = [grades EXCEPT ![e] = SavedGrade(@.ca_score, @.exam_score, STATUS_REJECTED)]
    /\ call' = NoCall
    /\ UNCHANGED <<enrollments, scale, policy, prerequisites, student, verificationVars, processVars>>

RepeatPolicies == {REPEAT_ALL, REPEAT_LATEST, REPEAT_BEST}

\* an administrator saves the AcademicPolicySettings row
update_academic_policy(p, ra) ==
    /\ policy' = [exists |-> TRUE, repeat_policy |-> p, require_approved_for_metrics |-> ra]
    /\ policy' # policy
    /\ call' = NoCall
    /\ UNCHANGED <<enrollments, grades, scale, prerequisites, student, verificationVars, processVars>>

\* an empty database but for the grading scale the deployment was seeded with
MetricsInit ==
    /\ enrollments = << >>
    /\ grades = << >>
    /\ scale \in Scales
    /\ policy = NoPolicy
    /\ call = NoCall
    /\ prerequisites = << >>
    /\ student = StudentS1
    /\ NoVerification
    /\ NoProcess

MetricsNext ==
    \/ \E o \in TakenOfferings : enrollment_create(o)
    \/ \E e \in 1..MaxEnrollments, sc \in ScoreInputs : grade_entry(e, sc[1], sc[2])
    \/ \E e \in 1..MaxEnrollments : grade_submit(e)
    \/ \E e \in 1..MaxEnrollments, bulk \in BOOLEAN : grade_approve(e, bulk)
    \/ \E e \in 1..MaxEnrollments : grade_reject(e)
    \/ \E p \in RepeatPolicies, ra \in BOOLEAN : update_academic_policy(p, ra)
    \/ \E save \in BOOLEAN : update_academic_metrics(save)

SpecMetrics == MetricsInit /\ [][MetricsNext]_vars

-----------------------------------------------------------------------------
(* The graduation audit over the same rows *)

AuditNext ==
    \/ \E o \in TakenOfferings : enrollment_create(o)
    \/ \E e \in 1..MaxEnrollments, sc \in ScoreInputs : grade_entry(e, sc[1], sc[2])
    \/ \E e \in 1..MaxEnrollments : grade_submit(e)
    \/ \E e \in 1..MaxEnrollments, bulk \in BOOLEAN : grade_approve(e, bulk)
    \/ \E e \in 1..MaxEnrollments : grade_reject(e)
    \/ \E p \in RepeatPolicies, ra \in BOOLEAN : update_academic_policy(p, ra)
    \/ \E program \in Programs : audit_student_graduation(program)

SpecAudit == MetricsInit /\ [][AuditNext]_vars

-----------------------------------------------------------------------------
(* select_enrollments_for_gpa as a function of the list it is given *)

\* lists of distinct offerings (unique_together), in any order, up to the bound
EnrollmentLists ==
    UNION {{s \in [1..n -> OfferingIds] : \A i, j \in 1..n : s[i] = s[j] => i = j} :
           n \in 0..MaxEnrollments}

\* the values a caller passes as repeat_policy
PolicyInputs == {"ALL", "LATEST", "BEST", "latest", "best", "all", "", "None", "bogus", "BOGUS"}

\* any list of enrollments, each ungraded or with a saved grade
SelectInit ==
    /\ scale \in Scales
    /\ enrollments \in EnrollmentLists
    /\ grades \in UNION {[S -> {SavedGrade(sc[1], sc[2], STATUS_DRAFT) : sc \in ScoreInputs}] :
                         S \in SUBSET (1..Len(enrollments))}
    /\ policy = NoPolicy
    /\ call = NoCall
    /\ prerequisites = << >>
    /\ student = StudentS1
    /\ NoVerification
    /\ NoProcess

ApplySelect(repeat_policy) ==
    /\ call' = [op |-> "select_enrollments_for_gpa", repeat_policy |-> repeat_policy,
                counted_ids |-> select_enrollments_for_gpa(EnrollmentList, repeat_policy)]
    /\ UNCHANGED <<enrollments, grades, scale, policy, prerequisites, student, verificationVars, processVars>>

SelectNext == \E repeat_policy \in PolicyInputs : ApplySelect(repeat_policy)

SpecSelect == SelectInit /\ [][SelectNext]_vars

-----------------------------------------------------------------------------
(* academics/eligibility.py *)

\* a course of the catalogue that has no offering yet
CourseCS301 == "CS301"

Courses == CourseCodes \cup {CourseCS301}

\* Course.title
CourseTitle(code) ==
    CASE code = "POL101" -> "Introduction to Politics"
      [] code = "CS201" -> "Data Structures"
      [] OTHER -> "Algorithms"

\* students.Level rows; None where the student has no current level
Level100 == "100 Level"
Level200 == "200 Level"
NoLevel == "None"
Levels == {NoLevel, Level100, Level200}

\* the semester argument of suggest_courses_for_student
Semesters == {"FIRST", "SECOND"}

\* CurriculumCourse rows of ProgramBSc, in pk order: its compulsory rows are those of
\* ProgramBSc.compulsory, and one elective
CurriculumBSc ==
    <<[course |-> "POL101", level |-> Level100, semester |-> "FIRST", is_compulsory |-> TRUE],
      [course |-> "CS201", level |-> Level100, semester |-> "FIRST", is_compulsory |-> TRUE],
      [course |-> "POL101", level |-> Level200, semester |-> "FIRST", is_compulsory |-> TRUE],
      [course |-> CourseCS301, level |-> Level100, semester |-> "FIRST", is_compulsory |-> FALSE]>>

\* CurriculumCourse.objects.filter(program=program): every other program lists its
\* compulsory courses at the first level
curriculum_courses(program) ==
    IF program = ProgramBSc THEN CurriculumBSc
    ELSE [i \in 1..Len(program.compulsory) |->
            [course |-> program.compulsory[i], level |-> Level100, semester |-> "FIRST",
             is_compulsory |-> TRUE]]

\* Prerequisite rows
Requires(program, course, prerequisite_course) ==
    [program |-> program, course |-> course, prerequisite_course |-> prerequisite_course]

\* the rows an administrator entered, in the two orders the rows of CS301 can come back
\* in (Prerequisite has no Meta.ordering); one row belongs to another program
PrerequisiteLists ==
    {<< >>,
     <<Requires(ProgramBSc, "CS201", "POL101"), Requires(ProgramBSc, CourseCS301, "POL101"),
       Requires(ProgramBSc, CourseCS301, "CS201"), Requires(ProgramND, "CS201", CourseCS301)>>,
     <<Requires(ProgramND, "CS201", CourseCS301), Requires(ProgramBSc, CourseCS301, "CS201"),
       Requires(ProgramBSc, CourseCS301, "POL101"), Requires(ProgramBSc, "CS201", "POL101")>>}

\* student_passed_course without the test of the grade's status
student_passed_course_ungated(course) ==
    \E e \in EnrollmentIds :
        /\ EnrollmentCourse(e) = course
        /\ HasGrade(e) /\ grades[e].grade # ""
        /\ ScaleRows(grades[e].grade) # {}
        /\ ScaleFirst(grades[e].grade).grade_point > 0

student_passed_course(course) ==
    LET require_approved == get_solo.require_approved_for_metrics
    IN \E e \in EnrollmentIds :
          /\ EnrollmentCourse(e) = course
          /\ HasGrade(e) /\ grades[e].grade # ""
          /\ ~(require_approved /\ grades[e].status # STATUS_APPROVED)
          /\ ScaleRows(grades[e].grade) # {}
          /\ ScaleFirst(grades[e].grade).grade_point > 0

\* the prerequisite rows of a course whatever program they belong to
prereqs_of_any_program(program, course) ==
    SelectSeq(prerequisites, LAMBDA p : p.course = course)

\* Prerequisite.objects.filter(program=program, course=course)
prereqs(program, course) ==
    SelectSeq(prerequisites, LAMBDA p : p.program = program /\ p.course = course)

\* Optional[str]
NoReason == [none |-> TRUE]

\* f"Missing prerequisites: {', '.join(missing)}": the codes in the order they are joined
MissingReason(missing) ==
    [none |-> FALSE, text |-> "Missing prerequisites: ", joined |-> missing]

\* check_prerequisites: (ok, reason)
check_prerequisites(program, course) ==
    LET rows == SelectSeq(prereqs(program, course),
                          LAMBDA p : ~student_passed_course(p.prerequisite_course))
        missing == [i \in 1..Len(rows) |-> rows[i].prerequisite_course]
    IN IF missing # << >> THEN <<FALSE, MissingReason(missing)>> ELSE <<TRUE, NoReason>>

CourseEligibility(course_code, course_title, eligible, reason) ==
    [course_code |-> course_code, course_title |-> course_title,
     eligible |-> eligible, reason |-> reason]

\* a loop that skips no course
SkipNone(course) == FALSE

\* `if student_passed_course(student, course): continue`
SkipPassed(course) == student_passed_course(course)

\* the loop over the curriculum rows
RECURSIVE Suggestions(_, _)
Suggestions(curriculum, program) ==
    IF curriculum = << >> THEN << >>
    ELSE LET course == Head(curriculum).course
             result == check_prerequisites(program, course)
         IN (IF SkipPassed(course) THEN << >>
             ELSE <<CourseEligibility(course, CourseTitle(course), result[1], result[2])>>)
            \o Suggestions(Tail(curriculum), program)

\* CurriculumCourse.objects.filter(program=program, level=current_level, semester=semester)
curriculum(program, current_level, semester) ==
    SelectSeq(curriculum_courses(program),
              LAMBDA cc : cc.level = current_level /\ cc.semester = semester)

suggest_courses_for_student(program, current_level, semester) ==
    IF ~program.exists \/ current_level = NoLevel THEN << >>
    ELSE Suggestions(curriculum(program, current_level, semester), program)

\* both pass predicates asked about one course, the graduation one with the policy's flag
ApplyPassed(course) ==
    /\ policy' = get_solo
    /\ call' = [op |-> "passed", course |-> course,
                student_passed_course |-> student_passed_course(course),
                passed_course |-> passed_course(course, get_solo.require_approved_for_metrics)]
    /\ UNCHANGED <<enrollments, grades, scale, prerequisites, student, verificationVars, processVars>>

\* get_solo() runs, and creates the policy row, when a prerequisite row is looked at
ApplyCheck(program, course) ==
    /\ policy' = IF prereqs(program, course) # << >> THEN get_solo ELSE policy
    /\ call' = [op |-> "check_prerequisites", program |-> program, course |-> course,
                ok |-> check_prerequisites(program, course)[1],
                reason |-> check_prerequisites(program, course)[2]]
    /\ UNCHANGED <<enrollments, grades, scale, prerequisites, student, verificationVars, processVars>>

\* get_solo() runs when the loop looks at a curriculum row
ApplySuggest(program, current_level, semester) ==
    /\ policy' = IF \/ ~program.exists
                     \/ current_level = NoLevel
                     \/ curriculum(program, current_level, semester) = << >>
                  THEN policy ELSE get_solo
    /\ call' = [op |-> "suggest_courses_for_student", program |-> program,
                current_level |-> current_level, semester |-> semester,
                suggestions |-> suggest_courses_for_student(program, current_level, semester)]
    /\ UNCHANGED <<enrollments, grades, scale, prerequisites, student, verificationVars, processVars>>

\* the scores of a failed and of a passed course
EligibilityScores == {<<0, 0>>, <<20, 70>>}

EligibilityPrograms == {NoProgram, ProgramBSc, ProgramND}

EligibilityInit ==
    /\ enrollments = << >>
    /\ grades = << >>
    /\ scale \in {ScaleACF, ScaleDup}
    /\ policy = NoPolicy
    /\ call = NoCall
    /\ prerequisites \in PrerequisiteLists
    /\ student = StudentS1
    /\ NoVerification
    /\ NoProcess

EligibilityNext ==
    \/ \E o \in TakenOfferings : enrollment_create(o)
    \/ \E e \in 1..MaxEnrollments, sc \in EligibilityScores : grade_entry(e, sc[1], sc[2])
    \/ \E e \in 1..MaxEnrollments : grade_submit(e)
    \/ \E e \in 1..MaxEnrollments, bulk \in BOOLEAN : grade_approve(e, bulk)
    \/ \E e \in 1..MaxEnrollments : grade_reject(e)
    \/ \E ra \in BOOLEAN : update_academic_policy(REPEAT_ALL, ra)
    \/ \E course \in Courses : ApplyPassed(course)
    \/ \E program \in EligibilityPrograms \ {NoProgram}, course \in {"CS201", CourseCS301} :
          ApplyCheck(program, course)
    \/ \E program \in EligibilityPrograms, current_level \in Levels, semester \in Semesters :
          ApplySuggest(program, current_level, semester)

SpecEligibility == EligibilityInit /\ [][EligibilityNext]_vars

-----------------------------------------------------------------------------
(* reporting/security_features.py, reporting/canonical_payload.py, reporting/models.py *)

MaxTime == 2

\* self.verification_cache_timeout (30 days), in ticks of 15 days
verification_cache_timeout == 2

\* None where a datetime is expected
NoTime == -1

StudentIds == {"S1"}

EmptyDict == << >>

\* transcript_content: a canonical payload (a dict, here of two fields) or a text
DictContent(g) == [is_dict |-> TRUE, items |-> [grade |-> g, units |-> "3"], text |-> ""]
TextContent == [is_dict |-> FALSE, items |-> EmptyDict, text |-> "Transcript of S1"]
Contents == {DictContent("A"), TextContent}

\* the value each field of a stored payload is overwritten with when it is forged
Forged == [grade |-> "F", units |-> "30"]

\* the keys of a payload in string order
KeyOrder ==
    <<"address", "college", "course_code", "course_title", "current_level", "current_session",
      "enrollments", "entry_level", "first_name", "grade", "grade_point", "last_name", "name",
      "semester", "session", "student", "student_id", "total_score", "units">>

\* json.dumps(payload, sort_keys=True, ...): the (key, value) pairs in key order.  A dict
\* inside the payload is a record, which has no key order of its own; a list inside it is a
\* sequence, which keeps its order.
canonical_json(payload) ==
    LET keys == SelectSeq(KeyOrder, LAMBDA k : k \in DOMAIN payload)
    IN [i \in 1..Len(keys) |-> <<keys[i], payload[keys[i]]>>]

\* str(transcript_content) of a text
TextOf(content) == <<<<"text", content.text>>>>

\* sha256(...).hexdigest(): a digest is equal to another exactly when the contents are
generate_document_hash(transcript_content) == [empty |-> FALSE, digest_of |-> transcript_content]

\* sha256(student_id:timestamp:SECRET_KEY), cut to 12 hex digits, with the prefix
generate_verification_code(student_id, generation_timestamp) ==
    <<"TXN", student_id, generation_timestamp>>

Codes == {generate_verification_code(sid, t) : sid \in StudentIds, t \in 0..MaxTime}

\* the verification_data dict: the keys the verification reads (the display keys
\* student_name, college_name, verification_url and signature_data are left out)
VerificationData(student_id, content) ==
    [student_id |-> student_id,
     generation_timestamp |-> now,
     document_hash |-> generate_document_hash(IF content.is_dict
                                              THEN canonical_json(content.items)
                                              ELSE TextOf(content)),
     canonical_payload |-> [none |-> ~content.is_dict, items |-> content.items],
     verified_at |-> NoTime]

\* TranscriptVerificationRecord.is_active
is_active(record) ==
    IF record.revoked_at # NoTime THEN FALSE
    ELSE IF record.expires_at # NoTime /\ record.expires_at <= now THEN FALSE
    ELSE TRUE

Put(f, k, v) == [x \in DOMAIN f \cup {k} |-> IF x = k THEN v ELSE f[x]]

\* cache.set(key, data, timeout)
cache_set(key, data) == Put(cache, key, [data |-> data, expires |-> now + verification_cache_timeout])

\* Optional[Dict]
None == [none |-> TRUE]
Some(data) == [none |-> FALSE, data |-> data]

\* cache.get(key): None once the entry has expired
cache_get(key) ==
    IF key \in DOMAIN cache /\ cache[key].expires > now THEN Some(cache[key].data) ELSE None

\* update_or_create(verification_code=..., defaults={...}): revoked_at is no default
update_or_create(verification_code, transcript_data) ==
    Put(records, verification_code,
        [student |-> transcript_data.student_id,
         generation_timestamp |-> transcript_data.generation_timestamp,
         document_hash |-> transcript_data.document_hash,
         payload_json |-> transcript_data,
         expires_at |-> now + verification_cache_timeout,
         revoked_at |-> IF verification_code \in DOMAIN records
                        THEN records[verification_code].revoked_at ELSE NoTime])

\* store_verification_data: the cache is written first, and any exception ends the call
store_verification_data(verification_code, transcript_data, cache_up, db_up) ==
    IF ~cache_up THEN UNCHANGED <<cache, records>>
    ELSE /\ cache' = cache_set(verification_code, transcript_data)
         /\ IF ~db_up THEN UNCHANGED records
            ELSE records' = update_or_create(verification_code, transcript_data)

\* create_secure_transcript_data: the security features are returned whatever
\* store_verification_data returned.  One verification code is followed: a second
\* transcript is issued only at the instant of the first, under the same code.
create_secure_transcript_data(student_id, transcript_content, cache_up, db_up) ==
    LET verification_code == generate_verification_code(student_id, now)
        verification_data == VerificationData(student_id, transcript_content)
    IN /\ DOMAIN issued \subseteq {verification_code}
       /\ store_verification_data(verification_code, verification_data, cache_up, db_up)
       /\ issued' = Put(issued, verification_code,
                        [content |-> transcript_content, at |-> now,
                         cache_up |-> cache_up, db_up |-> db_up, altered |-> FALSE])
       /\ call' = [op |-> "create_secure_transcript_data",
                   verification_code |-> verification_code]
       /\ UNCHANGED <<now, dataVars, processVars>>

\* null in a payload
JsonNull == "null"

\* configuration.CollegeSettings.objects.first()
NoCollegeSettings == [exists |-> FALSE, college_name |-> JsonNull, college_address |-> JsonNull]
CollegeSettings ==
    [exists |-> TRUE, college_name |-> "City College", college_address |-> "1 Main Road"]

\* one line item of the payload
PayloadItem(e) ==
    LET grade_name == IF HasGrade(e) /\ grades[e].grade # "" THEN grades[e].grade ELSE JsonNull
    IN [session |-> EnrollmentOffering(e).session_name,
        semester |-> EnrollmentOffering(e).semester,
        course_code |-> EnrollmentCourse(e),
        course_title |-> CourseTitle(EnrollmentCourse(e)),
        units |-> EnrollmentUnits(e),
        grade |-> grade_name,
        total_score |-> IF HasGrade(e) THEN grades[e].total_score ELSE JsonNull,
        grade_point |-> IF grade_name # JsonNull /\ ScaleRows(grade_name) # {}
                        THEN ScaleFirst(grade_name).grade_point ELSE JsonNull]

\* build_canonical_transcript_payload: the items in the order the enrollments are given
build_canonical_transcript_payload(stu, enroll_list, college_settings) ==
    [college |-> [name |-> college_settings.college_name,
                  address |-> college_settings.college_address],
     student |-> [student_id |-> stu.student_id, first_name |-> stu.first_name,
                  last_name |-> stu.last_name, entry_level |-> stu.entry_level,
                  current_level |-> stu.current_level,
                  current_session |-> stu.current_session],
     enrollments |-> [i \in 1..Len(enroll_list) |-> PayloadItem(enroll_list[i])]]

\* verification_data rebuilt from the rows as they are now
live_payload(record) ==
    [record.payload_json EXCEPT
        !.canonical_payload.items =
            build_canonical_transcript_payload(student, EnrollmentList, CollegeSettings)]

\* dict(record.payload_json)
record_payload(record) == record.payload_json

\* verify_transcript, the fallback of its except clause
verify_fallback(verification_code, cache_get_up) ==
    IF ~cache_get_up THEN None
    ELSE IF cache_get(verification_code).none THEN None
    ELSE Some([cache_get(verification_code).data EXCEPT !.verified_at = now])

\* verify_transcript: (what it returns, the cache it leaves)
verify_transcript(verification_code, db_up, cache_set_up, cache_get_up) ==
    IF ~db_up THEN <<verify_fallback(verification_code, cache_get_up), cache>>
    ELSE IF verification_code \notin DOMAIN records THEN <<None, cache>>
    ELSE IF ~is_active(records[verification_code]) THEN <<None, cache>>
    ELSE LET verification_data ==
                [record_payload(records[verification_code]) EXCEPT !.verified_at = now]
         IN IF cache_set_up
            THEN <<Some(verification_data), cache_set(verification_code, verification_data)>>
            ELSE <<verify_fallback(verification_code, cache_get_up), cache>>

TamperError == "Transcript data does not match stored hash (possible tampering)"
InvalidError == "Invalid or expired verification code"

\* _validate_tamper_evidence: (ok, err); json.dumps of a stored payload does not raise
validate_tamper_evidence(verification_data) ==
    LET payload == verification_data.canonical_payload
        stored_hash == verification_data.document_hash
    IN IF payload.none \/ payload.items = EmptyDict \/ stored_hash.empty THEN <<TRUE, "">>
       ELSE IF generate_document_hash(canonical_json(payload.items)) # stored_hash
            THEN <<FALSE, TamperError>>
            ELSE <<TRUE, "">>

\* verify_transcript_security
verify_transcript_security(verification_data) ==
    IF verification_data.none
    THEN [valid |-> FALSE, error |-> InvalidError, data |-> None]
    ELSE LET check == validate_tamper_evidence(verification_data.data)
         IN [valid |-> check[1], error |-> check[2], data |-> verification_data]

verify_transcript_code(verification_code, db_up, cache_set_up, cache_get_up) ==
    LET found == verify_transcript(verification_code, db_up, cache_set_up, cache_get_up)
        result == verify_transcript_security(found[1])
    IN /\ cache' = found[2]
       /\ call' = [op |-> "verify_transcript_code", verification_code |-> verification_code,
                   db_up |-> db_up, valid |-> result.valid, error |-> result.error,
                   data |-> result.data]
       /\ UNCHANGED <<records, now, issued, dataVars, processVars>>

\* a write to one field of the canonical payload stored in the row, made behind the
\* application (rec.payload_json = payload; rec.save(update_fields=['payload_json']))
TamperPayload(verification_code, key) ==
    /\ verification_code \in DOMAIN records
    /\ ~issued[verification_code].altered
    /\ key \in DOMAIN records[verification_code].payload_json.canonical_payload.items
    /\ records' = [records EXCEPT
                     ![verification_code].payload_json.canonical_payload.items[key] = Forged[key]]
    /\ issued' = [issued EXCEPT ![verification_code].altered = TRUE]
    /\ call' = NoCall
    /\ UNCHANGED <<cache, now, dataVars, processVars>>

\* revocation: revoked_at is set on the row
Revoke(verification_code) ==
    /\ verification_code \in DOMAIN records
    /\ records[verification_code].revoked_at = NoTime
    /\ records' = [records EXCEPT ![verification_code].revoked_at = now]
    /\ call' = NoCall
    /\ UNCHANGED <<cache, now, issued, dataVars, processVars>>

\* time passes
Tick ==
    /\ now < MaxTime
    /\ now' = now + 1
    /\ call' = NoCall
    /\ UNCHANGED <<records, cache, issued, dataVars, processVars>>

VerificationInit ==
    /\ enrollments = << >>
    /\ grades = << >>
    /\ scale = ScaleACF
    /\ policy = NoPolicy
    /\ call = NoCall
    /\ prerequisites = << >>
    /\ student = StudentS1
    /\ NoVerification
    /\ NoProcess

VerificationNext ==
    \/ \E sid \in StudentIds, content \in Contents, cache_up \in BOOLEAN, db_up \in BOOLEAN :
          create_secure_transcript_data(sid, content, cache_up, db_up)
    \/ \E code \in Codes, db_up \in BOOLEAN, cache_set_up \in BOOLEAN, cache_get_up \in BOOLEAN :
          verify_transcript_code(code, db_up, cache_set_up, cache_get_up)
    \/ \E code \in Codes, key \in DOMAIN Forged : TamperPayload(code, key)
    \/ \E code \in Codes : Revoke(code)
    \/ Tick

SpecVerification == VerificationInit /\ [][VerificationNext]_vars

-----------------------------------------------------------------------------
(* Verification of rows stored before the payload and the digest were kept *)

\* transcript_data.get('document_hash', '') of data that carries no digest
NoDigest == [empty |-> TRUE, digest_of |-> << >>]

\* the verification_data of an old row: with or without a canonical payload, with or
\* without a digest
LegacyData ==
    {[student_id |-> "S1", generation_timestamp |-> 0, document_hash |-> h,
      canonical_payload |-> p, verified_at |-> NoTime] :
        h \in {NoDigest, generate_document_hash(canonical_json(DictContent("A").items))},
        p \in {[none |-> TRUE, items |-> EmptyDict], [none |-> FALSE, items |-> EmptyDict],
               [none |-> FALSE, items |-> DictContent("A").items]}}

\* the row update_or_create wrote for it; expires_at is nullable
LegacyRecord(transcript_data, expires_at) ==
    [student |-> transcript_data.student_id,
     generation_timestamp |-> transcript_data.generation_timestamp,
     document_hash |-> transcript_data.document_hash,
     payload_json |-> transcript_data,
     expires_at |-> expires_at,
     revoked_at |-> NoTime]

LegacyInit ==
    /\ enrollments = << >>
    /\ grades = << >>
    /\ scale = ScaleACF
    /\ policy = NoPolicy
    /\ call = NoCall
    /\ prerequisites = << >>
    /\ student = StudentS1
    /\ \E transcript_data \in LegacyData, expires_at \in {NoTime, verification_cache_timeout} :
          records = [code \in {generate_verification_code("S1", 0)} |->
                        LegacyRecord(transcript_data, expires_at)]
    /\ cache = << >>
    /\ now = 0
    /\ issued = << >>
    /\ NoProcess

LegacyNext ==
    \/ \E code \in Codes, db_up \in BOOLEAN, cache_set_up \in BOOLEAN, cache_get_up \in BOOLEAN :
          verify_transcript_code(code, db_up, cache_set_up, cache_get_up)
    \/ \E code \in Codes : Revoke(code)
    \/ Tick

SpecLegacy == LegacyInit /\ [][LegacyNext]_vars

-----------------------------------------------------------------------------
(* build_canonical_transcript_payload as a function of the enrollments it is given *)

\* the enrollments of the student in every order they can be supplied in
Orders ==
    {order \in [EnrollmentIds -> EnrollmentIds] :
        \A i, j \in EnrollmentIds : order[i] = order[j] => i = j}

ApplyBuild(order, college_settings) ==
    LET payload == build_canonical_transcript_payload(student, order, college_settings)
    IN /\ call' = [op |-> "build_canonical_transcript_payload", order |-> order,
                   college_settings |-> college_settings,
                   canonical |-> canonical_json(payload),
                   document_hash |-> generate_document_hash(canonical_json(payload))]
       /\ UNCHANGED <<dataVars, verificationVars, processVars>>

PayloadNext ==
    \E order \in Orders, college_settings \in {NoCollegeSettings, CollegeSettings} :
        ApplyBuild(order, college_settings)

SpecPayload == SelectInit /\ [][PayloadNext]_vars

-----------------------------------------------------------------------------
(* A transcript generated from the rows, and the rows edited afterwards *)

\* transcript_generator.py: order_by session name, course title.  The student registers in
\* calendar order and the session names of the catalogue sort in that order.
ordered_enrollments == EnrollmentList

\* generate_transcript with add_security_features; one generated transcript is followed
generate_transcript(cache_up, db_up) ==
    /\ issued = << >>
    /\ create_secure_transcript_data(
          student.student_id,
          [is_dict |-> TRUE,
           items |-> build_canonical_transcript_payload(student, ordered_enrollments,
                                                        CollegeSettings),
           text |-> ""],
          cache_up, db_up)

\* students/views.py student_edit: the names are posted
student_edit(first_name, last_name) ==
    /\ student' = [student EXCEPT !.first_name = first_name, !.last_name = last_name]
    /\ student' # student
    /\ call' = NoCall
    /\ UNCHANGED <<enrollments, grades, scale, policy, prerequisites, verificationVars, processVars>>

\* core/views.py grading_settings_edit: the grade point of one row is posted
grading_settings_edit(row, grade_point) ==
    /\ row \in 1..Len(scale)
    /\ grade_point >= 0 /\ grade_point <= 500
    /\ scale[row].grade_point # grade_point
    /\ scale' = [scale EXCEPT ![row].grade_point = grade_point]
    /\ call' = NoCall
    /\ UNCHANGED <<enrollments, grades, policy, prerequisites, student, verificationVars, processVars>>

\* the offerings the student of the generated transcript registers for
SnapshotOfferings == {1, 2}

SnapshotNext ==
    \/ \E o \in SnapshotOfferings : enrollment_create(o)
    \/ \E e \in 1..MaxEnrollments, sc \in EligibilityScores : grade_entry(e, sc[1], sc[2])
    \/ student_edit("Adaeze", "Obi")
    \/ grading_settings_edit(1, 500)
    \/ \E cache_up \in BOOLEAN, db_up \in BOOLEAN : generate_transcript(cache_up, db_up)
    \/ \E code \in DOMAIN issued, db_up \in BOOLEAN, cache_set_up \in BOOLEAN,
          cache_get_up \in BOOLEAN :
          verify_transcript_code(code, db_up, cache_set_up, cache_get_up)

SpecSnapshot == VerificationInit /\ [][SnapshotNext]_vars

-----------------------------------------------------------------------------
(* The computations over rows with gaps: no grade, no scale entry, no policy row *)

\* core/views.py grading_settings_delete, the POST of an administrator
grading_settings_delete(row) ==
    /\ row \in 1..Len(scale)
    /\ scale' = SubSeq(scale, 1, row - 1) \o SubSeq(scale, row + 1, Len(scale))
    /\ call' = NoCall
    /\ UNCHANGED <<enrollments, grades, policy, prerequisites, student, verificationVars, processVars>>

\* the rows of the longest scale
ScaleRowIds == 1..3

GapsNext ==
    \/ \E o \in TakenOfferings : enrollment_create(o)
    \/ \E e \in 1..MaxEnrollments, sc \in EligibilityScores : grade_entry(e, sc[1], sc[2])
    \/ \E row \in ScaleRowIds : grading_settings_delete(row)
    \/ \E p \in RepeatPolicies, ra \in BOOLEAN : update_academic_policy(p, ra)
    \/ \E save \in BOOLEAN : update_academic_metrics(save)
    \/ audit_student_graduation(ProgramBSc)
    \/ \E course \in CourseCodes : ApplyPassed(course)

SpecGaps == MetricsInit /\ [][GapsNext]_vars

-----------------------------------------------------------------------------
(* reporting/batch_transcript_generator.py *)

\* students.Student rows the batch can select
BatchStudents == {"S1", "S2", "S3"}

\* the student_ids argument: ids of rows, and one id that names no row
StudentIdInputs == SUBSET (BatchStudents \cup {"S9"})

\* max_workers
WorkerCounts == {1, 2}

\* progress_callback: None, a callable that returns, a callable that raises
CALLBACK_NONE == "None"
CALLBACK_RETURNS == "returns"
CALLBACK_RAISES == "raises"
Callbacks == {CALLBACK_NONE, CALLBACK_RETURNS, CALLBACK_RAISES}

\* a future: submitted, running in a worker, or done with the tuple the worker returned
FUTURE_PENDING == [state |-> "pending", file_path |-> << >>, success |-> FALSE]
FUTURE_RUNNING == [state |-> "running", file_path |-> << >>, success |-> FALSE]
Done(file_path, success) == [state |-> "done", file_path |-> file_path, success |-> success]

FilePath(sid) == <<"transcript", sid, "pdf">>
ErrorPath == <<"Error">>

FailedMessage(sid) == <<"Failed to generate transcript for", sid>>
ErrorMessage(sid) == <<"Error processing", sid>>

\* the dict returned when no student matches
NoStudentsFound ==
    [success |-> FALSE, error |-> "No students found matching criteria", total_students |-> 0,
     successful |-> 0, failed |-> 0]

Running(b) == {sid \in b.students : b.futures[sid] = FUTURE_RUNNING}
IsDone(b, sid) == b.futures[sid].state = "done"

\* generate_batch_transcripts up to the submission of the tasks (save_security_data is
\* left at its default)
generate_batch_transcripts(student_ids, max_workers, progress_callback, create_zip) ==
    LET students == student_ids \cap BatchStudents
    IN /\ batch.pc \in {"idle", "returned", "raised"}
       /\ batch' =
            IF students = {}
            THEN [pc |-> "returned", students |-> {}, results |-> NoStudentsFound]
            ELSE [pc |-> "as_completed",
                  students |-> students,
                  max_workers |-> max_workers,
                  progress_callback |-> progress_callback,
                  create_zip |-> create_zip,
                  futures |-> [sid \in students |-> FUTURE_PENDING],
                  seen |-> {},
                  written |-> {},
                  results |-> [success |-> TRUE, total_students |-> Cardinality(students),
                               successful |-> 0, failed |-> 0, errors |-> << >>,
                               generated_files |-> << >>, zip_file |-> FALSE]]
       /\ call' = NoCall
       /\ UNCHANGED <<dataVars, verificationVars, registration>>

\* a worker of the pool takes a submitted task
executor_run(sid) ==
    /\ batch.pc = "as_completed"
    /\ sid \in batch.students
    /\ batch.futures[sid] = FUTURE_PENDING
    /\ Cardinality(Running(batch)) < batch.max_workers
    /\ batch' = [batch EXCEPT !.futures[sid] = FUTURE_RUNNING]
    /\ call' = NoCall
    /\ UNCHANGED <<dataVars, verificationVars, registration>>

\* _generate_single_transcript: generate_transcript wrote the file and answered True, or
\* answered False or raised, which the except clause turns into a tuple as well
_generate_single_transcript(sid, generated) ==
    /\ batch.pc = "as_completed"
    /\ sid \in batch.students
    /\ batch.futures[sid] = FUTURE_RUNNING
    /\ batch' = [batch EXCEPT
                   !.futures[sid] = IF generated THEN Done(FilePath(sid), TRUE)
                                    ELSE Done(ErrorPath, FALSE),
                   !.written = IF generated THEN @ \cup {sid} ELSE @]
    /\ call' = NoCall
    /\ UNCHANGED <<dataVars, verificationVars, registration>>

\* the try block of the result loop for a future whose worker generated the transcript
Succeeded(results, sid, file_path, progress_callback) ==
    LET counted == [results EXCEPT !.successful = @ + 1,
                                   !.generated_files = Append(@, file_path)]
    IN IF progress_callback = CALLBACK_RAISES
       THEN [counted EXCEPT !.failed = @ + 1, !.errors = Append(@, ErrorMessage(sid))]
       ELSE counted

Failed(results, sid) ==
    [results EXCEPT !.failed = @ + 1, !.errors = Append(@, FailedMessage(sid))]

\* one turn of `for future in as_completed(future_to_student)`
as_completed(sid) ==
    /\ batch.pc = "as_completed"
    /\ sid \in batch.students \ batch.seen
    /\ IsDone(batch, sid)
    /\ batch' = [batch EXCEPT
                   !.seen = @ \cup {sid},
                   !.results = IF batch.futures[sid].success
                               THEN Succeeded(@, sid, batch.futures[sid].file_path,
                                              batch.progress_callback)
                               ELSE Failed(@, sid)]
    /\ call' = NoCall
    /\ UNCHANGED <<dataVars, verificationVars, registration>>

\* after the loop: _create_zip_archive, which is outside every try block, then the return
batch_return(zip_up) ==
    /\ batch.pc = "as_completed"
    /\ batch.seen = batch.students
    /\ batch' = IF batch.create_zip /\ batch.results.generated_files # << >>
                THEN IF zip_up
                     THEN [batch EXCEPT !.pc = "returned", !.results.zip_file = TRUE]
                     ELSE [batch EXCEPT !.pc = "raised"]
                ELSE [batch EXCEPT !.pc = "returned"]
    /\ call' = NoCall
    /\ UNCHANGED <<dataVars, verificationVars, registration>>

BatchNext ==
    \/ \E student_ids \in StudentIdInputs, max_workers \in WorkerCounts,
          progress_callback \in Callbacks, create_zip \in BOOLEAN :
          generate_batch_transcripts(student_ids, max_workers, progress_callback, create_zip)
    \/ \E sid \in BatchStudents : executor_run(sid)
    \/ \E sid \in BatchStudents, generated \in BOOLEAN : _generate_single_transcript(sid, generated)
    \/ \E sid \in BatchStudents : as_completed(sid)
    \/ \E zip_up \in BOOLEAN : batch_return(zip_up)

SpecBatch == VerificationInit /\ [][BatchNext]_vars

-----------------------------------------------------------------------------
(* courses/registration_rules.py, students/management/commands/enroll_student.py *)

\* student.current_level of the students that register
StudentLevel(sid) == IF sid = student.student_id THEN student.current_level ELSE Level100

\* Enrollment rows of the student for the course: in the offering registered for, and, for
\* the student whose record is followed, in the offerings taken before
EnrollmentCount(sid, course) ==
    (IF sid \in registration.roster /\ registration.offering.course = course THEN 1 ELSE 0)
    + (IF sid = student.student_id
       THEN Cardinality({e \in EnrollmentIds : EnrollmentCourse(e) = course}) ELSE 0)

\* Grade.objects.filter(enrollment__student=student, ...course=prerequisite,
\* total_score__gte=40).exists()
ScoredForty(sid, course) ==
    /\ sid = student.student_id
    /\ \E e \in EnrollmentIds :
          EnrollmentCourse(e) = course /\ HasGrade(e) /\ grades[e].total_score >= 40

\* no query of the prerequisite check raises
NoFailure == 0

\* registration_rules.check_prerequisites: the unmet codes of the rows the loop got through
\* before a query raised at row fail_at (the except clause returns what was collected)
rules_check_prerequisites(sid, course, fail_at) ==
    LET prereqs_of == SelectSeq(prerequisites, LAMBDA p : p.course = course)
        through == IF fail_at = NoFailure \/ fail_at > Len(prereqs_of) THEN prereqs_of
                   ELSE SubSeq(prereqs_of, 1, fail_at - 1)
        unpassed == SelectSeq(through, LAMBDA p : ~ScoredForty(sid, p.prerequisite_course))
    IN [i \in 1..Len(unpassed) |-> unpassed[i].prerequisite_course]

\* policy.max_course_repeats is no field of AcademicPolicySettings: with or without a
\* policy row the limit is 3
max_repeats == 3

check_repeat_limit(sid, course) == EnrollmentCount(sid, course) < max_repeats

check_already_enrolled(sid) == sid \notin registration.roster

RegistrationResult(ok, error, warnings) == [ok |-> ok, error |-> error, warnings |-> warnings]

NoError == <<"None">>
LevelMessage(sid) == <<"Student level does not match offering level", StudentLevel(sid)>>
PrereqMessage(unmet) == <<"Missing prerequisites: ", unmet>>

can_enroll(sid, strict_prereqs, fail_at) ==
    LET offering == registration.offering
        mismatch == /\ offering.level # NoLevel /\ StudentLevel(sid) # NoLevel
                    /\ StudentLevel(sid) # offering.level
        level_warnings == IF mismatch THEN <<LevelMessage(sid)>> ELSE << >>
        unmet_prereqs == rules_check_prerequisites(sid, offering.course, fail_at)
    IN IF ~offering.is_active
       THEN RegistrationResult(FALSE, <<"Course offering is not active.">>, << >>)
       ELSE IF ~check_already_enrolled(sid)
       THEN RegistrationResult(FALSE,
                <<"Student is already enrolled in this course offering.">>, << >>)
       ELSE IF mismatch /\ strict_prereqs
       THEN RegistrationResult(FALSE, LevelMessage(sid), << >>)
       ELSE IF offering.capacity # NoCapacity
               /\ Cardinality(registration.roster) >= offering.capacity
       THEN RegistrationResult(FALSE, <<"Course offering is full (capacity reached).">>, << >>)
       ELSE IF ~check_repeat_limit(sid, offering.course)
       THEN RegistrationResult(FALSE, <<"Student has reached maximum repeat limit">>, << >>)
       ELSE IF unmet_prereqs # << >> /\ strict_prereqs
       THEN RegistrationResult(FALSE, PrereqMessage(unmet_prereqs), << >>)
       ELSE RegistrationResult(TRUE, NoError,
                level_warnings \o (IF unmet_prereqs # << >>
                                   THEN <<PrereqMessage(unmet_prereqs)>> ELSE << >>))

\* CourseOffering.objects.create(..., capacity=...), before registration opens
offering_create(capacity) ==
    /\ registration.roster = {}
    /\ \A sid \in RegistrationStudents : registration.pc[sid] = "idle"
    /\ registration.offering.capacity # capacity
    /\ registration' = [registration EXCEPT !.offering.capacity = capacity]
    /\ call' = NoCall
    /\ UNCHANGED <<dataVars, verificationVars, batch>>

\* enroll_student up to `if not rule.ok: return`
enroll_student_can_enroll(sid) ==
    LET rule == can_enroll(sid, FALSE, NoFailure)
    IN /\ registration.pc[sid] = "idle"
       /\ IF rule.ok
          THEN /\ registration' = [registration EXCEPT !.pc[sid] = "get_or_create"]
               /\ call' = NoCall
          ELSE /\ UNCHANGED registration
               /\ call' = [op |-> "enroll_student", student_id |-> sid, created |-> FALSE,
                           error |-> rule.error,
                           count |-> Cardinality(registration.roster)]
       /\ UNCHANGED <<dataVars, verificationVars, batch>>

\* the rest of enroll_student: Enrollment.objects.get_or_create(student, course_offering)
enroll_student_get_or_create(sid) ==
    /\ registration.pc[sid] = "get_or_create"
    /\ registration' = [registration EXCEPT !.pc[sid] = "idle", !.roster = @ \cup {sid}]
    /\ call' = [op |-> "enroll_student", student_id |-> sid,
                created |-> sid \notin registration.roster, error |-> NoError,
                count |-> Cardinality(registration.roster \cup {sid})]
    /\ UNCHANGED <<dataVars, verificationVars, batch>>

Capacities == {NoCapacity, 1, 2}

CapacityNext ==
    \/ \E capacity \in Capacities : offering_create(capacity)
    \/ \E sid \in RegistrationStudents : enroll_student_can_enroll(sid)
    \/ \E sid \in RegistrationStudents : enroll_student_get_or_create(sid)

SpecCapacity == VerificationInit /\ [][CapacityNext]_vars

-----------------------------------------------------------------------------
(* can_enroll over the prerequisite rows and the grades of the student *)

ApplyCanEnroll(sid, strict_prereqs, fail_at) ==
    LET rule == can_enroll(sid, strict_prereqs, fail_at)
    IN /\ call' = [op |-> "can_enroll", student_id |-> sid, strict_prereqs |-> strict_prereqs,
                   fail_at |-> fail_at, ok |-> rule.ok, error |-> rule.error,
                   warnings |-> rule.warnings]
       /\ UNCHANGED <<dataVars, verificationVars, processVars>>

\* scores below 40, between 40 and the lowest passing band of the scale, and above it
RegistrationScores == {<<0, 0>>, <<10, 40>>, <<20, 70>>}

\* the row of the prerequisite loop at which a query raises
FailurePoints == {NoFailure, 1, 2}

RegistrationNext ==
    \/ \E o \in TakenOfferings : enrollment_create(o)
    \/ \E e \in 1..MaxEnrollments, sc \in RegistrationScores : grade_entry(e, sc[1], sc[2])
    \/ \E e \in 1..MaxEnrollments : grade_submit(e)
    \/ \E e \in 1..MaxEnrollments, bulk \in BOOLEAN : grade_approve(e, bulk)
    \/ \E ra \in BOOLEAN : update_academic_policy(REPEAT_ALL, ra)
    \/ \E sid \in {"S1", "S2"}, strict_prereqs \in BOOLEAN, fail_at \in FailurePoints :
          ApplyCanEnroll(sid, strict_prereqs, fail_at)

SpecRegistration == EligibilityInit /\ [][RegistrationNext]_vars

-----------------------------------------------------------------------------
(* grading/management/commands: submit_grades, approve_grades, reject_grades,
   record_scores *)

\* no --course option: the queryset is not narrowed
AnyCourse == "None"

CourseOptions == CourseCodes \cup {AnyCourse}

\* qs.filter(enrollment__course_offering__course__code=opts['course']) when the option
\* is given
InQuerySet(e, course) == course = AnyCourse \/ EnrollmentCourse(e) = course

\* submit_grades: qs.exclude(status=APPROVED).update(status=SUBMITTED, ...)
submit_grades(course) ==
    /\ grades' = [e \in DOMAIN grades |->
                    IF InQuerySet(e, course) /\ grades[e].status # STATUS_APPROVED
                    THEN [grades[e] EXCEPT !.status = STATUS_SUBMITTED]
                    ELSE grades[e]]
    /\ call' = NoCall
    /\ UNCHANGED <<enrollments, scale, policy, prerequisites, student, verificationVars, processVars>>

\* approve_grades: qs.update(status=APPROVED, ...) over the rows the options leave
approve_grades(course) ==
    /\ grades' = [e \in DOMAIN grades |->
                    IF InQuerySet(e, course)
                    THEN [grades[e] EXCEPT !.status = STATUS_APPROVED]
                    ELSE grades[e]]
    /\ call' = NoCall
    /\ UNCHANGED <<enrollments, scale, policy, prerequisites, student, verificationVars, processVars>>

\* reject_grades: qs.update(status=REJECTED, ...) over the rows the options leave
reject_grades(course) ==
    /\ grades' = [e \in DOMAIN grades |->
                    IF InQuerySet(e, course)
                    THEN [grades[e] EXCEPT !.status = STATUS_REJECTED]
                    ELSE grades[e]]
    /\ call' = NoCall
    /\ UNCHANGED <<enrollments, scale, policy, prerequisites, student, verificationVars, processVars>>

\* the values the --semester option of record_scores accepts
SEMESTER_CHOICES == {"FIRST", "SECOND", "SUMMER"}

\* record_scores student_id course_code session_name ca_score exam_score: the enrolment
\* of the student in the offering of that course, session and semester; get_or_create
\* with the scores as defaults, and on a row that exists the scores are assigned and the
\* row saved.  Without the enrolment DoesNotExist is caught and nothing is written.
record_scores(e, ca, exam) ==
    /\ e \in EnrollmentIds
    /\ EnrollmentOffering(e).semester \in SEMESTER_CHOICES
    /\ grades' = SetGrade(e, IF HasGrade(e)
                             THEN SavedGrade(ca, exam, grades[e].status)
                             ELSE SavedGrade(ca, exam, STATUS_DRAFT))
    /\ call' = NoCall
    /\ UNCHANGED <<enrollments, scale, policy, prerequisites, student, verificationVars, processVars>>

\* the views and the commands of the approval workflow, over the grades of the student
WorkflowNext ==
    \/ \E o \in TakenOfferings : enrollment_create(o)
    \/ \E e \in 1..MaxEnrollments, sc \in EligibilityScores : grade_entry(e, sc[1], sc[2])
    \/ \E e \in 1..MaxEnrollments : grade_submit(e)
    \/ \E e \in 1..MaxEnrollments, bulk \in BOOLEAN : grade_approve(e, bulk)
    \/ \E e \in 1..MaxEnrollments : grade_reject(e)
    \/ \E course \in CourseOptions : submit_grades(course)
    \/ \E course \in CourseOptions : approve_grades(course)
    \/ \E course \in CourseOptions : reject_grades(course)
    \/ \E e \in 1..MaxEnrollments, sc \in RegistrationScores : record_scores(e, sc[1], sc[2])

SpecWorkflow == EligibilityInit /\ [][WorkflowNext]_vars

\* the views of the approval workflow alone
ViewsNext ==
    \/ \E o \in TakenOfferings : enrollment_create(o)
    \/ \E e \in 1..MaxEnrollments, sc \in EligibilityScores : grade_entry(e, sc[1], sc[2])
    \/ \E e \in 1..MaxEnrollments : grade_submit(e)
    \/ \E e \in 1..MaxEnrollments, bulk \in BOOLEAN : grade_approve(e, bulk)
    \/ \E e \in 1..MaxEnrollments : grade_reject(e)

SpecViews == EligibilityInit /\ [][ViewsNext]_vars

-----------------------------------------------------------------------------
(* Properties of the aggregation, checked under SpecMetrics *)

Completed ==
    /\ call.op = "update_academic_metrics"
    /\ call.status # "MultipleObjectsReturned"

\* the counted set the repeat policy chooses
Counted == select_enrollments_for_gpa(EnrollmentList, policy.repeat_policy)

\* the grade's letter has an entry on the grading scale
Resolved(e) == HasGrade(e) /\ \E i \in 1..Len(scale) : scale[i].grade_name = grades[e].grade

GradePointOf(e) ==
    LET i == CHOOSE k \in 1..Len(scale) : scale[k].grade_name = grades[e].grade
    IN scale[i].grade_point

\* the approval gate skips the enrollment
Gated(e) ==
    /\ policy.require_approved_for_metrics
    /\ HasGrade(e)
    /\ grades[e].status # STATUS_APPROVED

RECURSIVE SumUnits(_)
SumUnits(S) ==
    IF S = {} THEN 0
    ELSE LET e == CHOOSE x \in S : TRUE IN EnrollmentUnits(e) + SumUnits(S \ {e})

RECURSIVE SumPoints(_)
SumPoints(S) ==
    IF S = {} THEN 0
    ELSE LET e == CHOOSE x \in S : TRUE
         IN EnrollmentUnits(e) * GradePointOf(e) + SumPoints(S \ {e})

\* c is points / units rounded to two decimals, 0.0 when there are no units
IsRounded(c, points, units) ==
    IF units > 0
    THEN /\ 2 * (points - c * units) <= units
         /\ 2 * (c * units - points) <= units
    ELSE c = 0

\* one 3-unit course attempted twice, graded C (2.0) and then A (4.0), nothing gated
RepeatScenario ==
    /\ enrollments = <<1, 2>>
    /\ scale = ScaleACF
    /\ DOMAIN grades = {1, 2}
    /\ grades[1].grade = "C" /\ grades[2].grade = "A"
    /\ ~Gated(1) /\ ~Gated(2)

RepeatScenarioHolds ==
    RepeatScenario =>
        call.student.current_cgpa = IF policy.repeat_policy = REPEAT_ALL THEN 300 ELSE 400

C8_AsStated ==
    (Completed /\ policy.require_approved_for_metrics) =>
        call.total_grade_points =
            SumPoints({e \in EnrollmentIds :
                        HasGrade(e) /\ grades[e].status = STATUS_APPROVED /\ Resolved(e)})

\* C8 amended: with require_approved_for_metrics set, a grade that is not APPROVED adds no
\* points; once it is APPROVED the next computation counts its points when the repeat policy
\* counts that attempt and its letter resolves on the scale.  A student whose only grade is an
\* unapproved A has CGPA 0.0, and the A's point value once it is approved.
C8_ApprovalGate ==
    (Completed /\ policy.require_approved_for_metrics) =>
        /\ call.total_grade_points =
              SumPoints({e \in Counted :
                          HasGrade(e) /\ grades[e].status = STATUS_APPROVED /\ Resolved(e)})
        /\ (Len(enrollments) = 1 /\ HasGrade(1) /\ grades[1].grade = "A" /\ scale = ScaleACF)
              => call.student.current_cgpa =
                    IF grades[1].status = STATUS_APPROVED THEN 400 ELSE 0

\* an approved A was counted under the gate while another attempt's draft grade was not
C8_Witness ==
    /\ Completed
    /\ policy.require_approved_for_metrics
    /\ Len(enrollments) = 2
    /\ DOMAIN grades = {1, 2}
    /\ grades[1].status = STATUS_DRAFT /\ grades[1].grade = "C"
    /\ grades[2].status = STATUS_APPROVED /\ grades[2].grade = "A"
    /\ scale = ScaleACF
    /\ call.total_grade_points = 4 * 300
    /\ call.student.current_cgpa = 400

\* C9: a second update_academic_metrics call, made right after a first with the rows
\* unchanged, leaves current_cgpa, total_units_attempted, total_units_passed and
\* total_sessions_completed as the first call left them, saved or not.
C9_Idempotent ==
    (call.op = "update_academic_metrics" /\ call.again) => call.student = call.before

\* two calls in a row on a student with units and a non-zero average
C9_Witness ==
    /\ Completed
    /\ call.again
    /\ call.student.total_units_attempted > 0
    /\ call.student.current_cgpa > 0
    /\ call.student.total_sessions_completed > 0

\* C26: after update_academic_metrics, total_units_passed is never greater than
\* total_units_attempted, for every repeat policy (ALL, LATEST, BEST) and every set of
\* attempts, so that saving the recomputed metrics never violates the model's
\* passed_units_not_exceed_attempted constraint.
C26_AsStated ==
    Completed =>
        /\ call.student.total_units_passed <= call.student.total_units_attempted
        /\ call.status # "IntegrityError"

\* the attempt adds its units and its points to the totals of update_academic_metrics
Contributes(e) == e \in Counted /\ HasGrade(e) /\ ~Gated(e) /\ Resolved(e)

\* C27: attempt selection and approval gating compose safely: with
\* require_approved_for_metrics set and policy LATEST or BEST, whenever a course has at
\* least one attempt with an APPROVED grade that resolves to a grade point, at least one
\* attempt at that course contributes units and points to the CGPA computed by
\* update_academic_metrics.
C27_AsStated ==
    (/\ Completed
     /\ policy.require_approved_for_metrics
     /\ policy.repeat_policy \in {REPEAT_LATEST, REPEAT_BEST}) =>
        \A c \in CourseCodes :
            (\E e \in EnrollmentIds :
                /\ EnrollmentCourse(e) = c
                /\ Resolved(e)
                /\ grades[e].status = STATUS_APPROVED) =>
            (\E e \in EnrollmentIds : EnrollmentCourse(e) = c /\ Contributes(e))

-----------------------------------------------------------------------------
(* Properties of the attempt selection, checked under SpecSelect *)

Selected == call.op = "select_enrollments_for_gpa"

\* the term of each catalogue offering as (year of the session name or 0, semester ordinal)
TermOf(e) ==
    CASE enrollments[e] = 1 -> <<2023, 2>>
      [] enrollments[e] = 2 -> <<2024, 1>>
      [] enrollments[e] = 3 -> <<2024, 1>>
      [] enrollments[e] = 4 -> <<0, 0>>

NotBefore(a, b) == a[1] > b[1] \/ (a[1] = b[1] /\ a[2] >= b[2])

Attempts(c) == {e \in EnrollmentIds : EnrollmentCourse(e) = c}

\* one identifier per course that has attempts, and nothing else
OnePerCourse ==
    /\ call.counted_ids \subseteq EnrollmentIds
    /\ \A c \in CourseCodes :
          Attempts(c) # {} => Cardinality(call.counted_ids \cap Attempts(c)) = 1

\* x's grade point is not below y's; an attempt without a grade point is below every other
PointNotBelow(x, y) == Resolved(y) => (Resolved(x) /\ GradePointOf(x) >= GradePointOf(y))

\* C5: under LATEST the selection holds exactly one identifier per distinct course code of
\* the input, and the term key of the chosen attempt (year, semester ordinal, compared
\* lexicographically) is not before that of any other attempt at the course.
C5_Latest ==
    (Selected /\ call.repeat_policy \in {"LATEST", "latest"}) =>
        /\ OnePerCourse
        /\ \A c \in CourseCodes : \A x \in call.counted_ids \cap Attempts(c) :
              \A y \in Attempts(c) : NotBefore(TermOf(x), TermOf(y))

\* the later term was listed first and the earlier attempt was dropped
C5_Witness ==
    /\ Selected
    /\ call.repeat_policy = "LATEST"
    /\ enrollments = <<2, 1>>
    /\ call.counted_ids = {1}

\* C6: under BEST the selection holds exactly one identifier per distinct course code, the
\* chosen attempt's grade point is not below that of any other attempt at the course, and
\* among the attempts with that same grade point the chosen one has the greatest term key.
C6_Best ==
    (Selected /\ call.repeat_policy \in {"BEST", "best"}) =>
        /\ OnePerCourse
        /\ \A c \in CourseCodes : \A x \in call.counted_ids \cap Attempts(c) :
              \A y \in Attempts(c) :
                 /\ PointNotBelow(x, y)
                 /\ PointNotBelow(y, x) => NotBefore(TermOf(x), TermOf(y))

\* two attempts with the same grade point: the tie went to the later term
C6_Witness ==
    /\ Selected
    /\ call.repeat_policy = "BEST"
    /\ enrollments = <<1, 2>>
    /\ scale = ScaleACF
    /\ DOMAIN grades = {1, 2}
    /\ grades[1].grade = "A" /\ grades[2].grade = "A"
    /\ call.counted_ids = {2}

\* C7: under ALL, and under an empty, missing or unrecognised policy value, the selection
\* is exactly the set of identifiers of all enrollments given.
C7_All ==
    (Selected /\ call.repeat_policy \notin {"LATEST", "latest", "BEST", "best"}) =>
        call.counted_ids = EnrollmentIds

\* an unrecognised policy kept both attempts at one course
C7_Witness ==
    /\ Selected
    /\ call.repeat_policy = "bogus"
    /\ enrollments = <<1, 2>>
    /\ call.counted_ids = {1, 2}

-----------------------------------------------------------------------------
(* The audit against the aggregation, checked under SpecAudit *)

\* C10: the cumulative average and total units the audit reports equal the CGPA and counted
\* units update_academic_metrics computes from the same enrollments, grades and policy
\* (stated for a student with a program whose every enrollment has a grade on the scale,
\* where update_academic_metrics completes).
C10_AsStated ==
    (/\ call.op = "audit_student_graduation"
     /\ call.program.exists
     /\ \A e \in EnrollmentIds : Resolved(e)
     /\ ~Totals(policy).raised) =>
        /\ call.cgpa = MetricsOf(Totals(policy)).current_cgpa
        /\ call.total_units_earned = MetricsOf(Totals(policy)).total_units_attempted

AuditDone == call.op = "audit_student_graduation"

\* the attempt has a grade whose letter is on the grading scale with a grade point above
\* zero, and the grade is APPROVED when require_approved_for_metrics is set
PassingAttempt(e) ==
    /\ HasGrade(e)
    /\ \E i \in 1..Len(scale) :
          scale[i].grade_name = grades[e].grade /\ scale[i].grade_point > 0
    /\ policy.require_approved_for_metrics => grades[e].status = STATUS_APPROVED

Passed(course) == \E e \in EnrollmentIds : EnrollmentCourse(e) = course /\ PassingAttempt(e)

\* C11: for a student with a program the audit returns eligible == true if and only if no
\* compulsory curriculum course of the program is unpassed and the program's
\* min_units_to_graduate is 0 or the total units the audit counted are at least that
\* minimum; missing_compulsory_courses lists exactly the codes of the unpassed compulsory
\* courses, each once; a student with no program is ineligible.
C11_Eligibility ==
    AuditDone =>
        IF ~call.program.exists THEN ~call.eligible
        ELSE LET unpassed == {c \in SeqRange(call.program.compulsory) : ~Passed(c)}
                 min_units == call.program.min_units_to_graduate
             IN /\ call.eligible <=>
                      /\ unpassed = {}
                      /\ (min_units = 0 \/ call.total_units_earned >= min_units)
                /\ SeqRange(call.missing_compulsory_courses) = unpassed
                /\ Len(call.missing_compulsory_courses) = Cardinality(unpassed)

\* both compulsory courses passed and the units counted exactly at the program's minimum
C11_Witness ==
    /\ AuditDone
    /\ call.program = ProgramBSc
    /\ call.total_units_earned = ProgramBSc.min_units_to_graduate
    /\ call.missing_compulsory_courses = << >>
    /\ call.eligible

\* the ladder the classification is taken from
LadderOf(program) ==
    IF program.classification_thresholds # << >> THEN program.classification_thresholds
    ELSE IF program.classification_scheme = CLASS_SCHEME_BSC THEN LegacyBSc ELSE LegacyND

\* C12: the audit's classification is null if and only if the student is ineligible; when
\* eligible it is the label of the first threshold, in descending min_cgpa order, whose
\* min_cgpa is at most the cumulative average (the program's own thresholds when it has
\* any, otherwise the built-in five-band ladder of its scheme), and the label of the last
\* band when no threshold qualifies.
C12_Classification ==
    AuditDone =>
        /\ call.classification = NoClassification <=> ~call.eligible
        /\ call.eligible =>
              LET ladder == LadderOf(call.program)
                  qualifying == {i \in 1..Len(ladder) : ladder[i].min_cgpa <= call.cgpa}
              IN /\ call.program.classification_thresholds = << >> => Len(ladder) = 5
                 /\ IF qualifying = {}
                    THEN call.classification = ladder[Len(ladder)].label
                    ELSE \E i \in qualifying :
                            /\ call.classification = ladder[i].label
                            /\ \A j \in qualifying : ladder[j].min_cgpa <= ladder[i].min_cgpa

\* an eligible student whose average is exactly the min_cgpa of a band of the built-in ladder
C12_Witness ==
    /\ AuditDone
    /\ call.program = ProgramBSc
    /\ call.eligible
    /\ call.cgpa = 200
    /\ call.classification = "Second Class Lower"

\* an eligible student whose average is below every band of the program's own ladder
NoBandQualifies ==
    /\ AuditDone
    /\ call.program = ProgramHND
    /\ call.eligible
    /\ call.cgpa = 100
    /\ call.classification = "Pass"

-----------------------------------------------------------------------------
(* Properties of the pass predicate and the prerequisite checks, under SpecEligibility *)

\* C13: eligibility.student_passed_course(student, course) and graduation.passed_course(
\* student, course, require_approved = the policy's require_approved_for_metrics) return
\* the same value, which is true exactly when some attempt at the course has a grade that
\* resolves through the grading scale to a grade point above zero and, when the flag is
\* set, has status APPROVED.
C13_PassPredicate ==
    call.op = "passed" =>
        /\ call.student_passed_course = call.passed_course
        /\ call.passed_course = Passed(call.course)

\* under the flag, a course whose only passing grade is not APPROVED: neither predicate holds
C13_Witness ==
    /\ call.op = "passed"
    /\ policy.require_approved_for_metrics
    /\ \E e \in EnrollmentIds :
          /\ EnrollmentCourse(e) = call.course
          /\ HasGrade(e) /\ grades[e].grade = "A" /\ grades[e].status = STATUS_SUBMITTED
    /\ ~call.student_passed_course
    /\ ~call.passed_course

CheckDone == call.op = "check_prerequisites"

\* the prerequisite courses declared for a course in a program
Required(program, course) ==
    {prerequisites[i].prerequisite_course :
        i \in {k \in 1..Len(prerequisites) :
                 prerequisites[k].program = program /\ prerequisites[k].course = course}}

Unpassed(program, course) == {a \in Required(program, course) : ~Passed(a)}

\* C14: check_prerequisites(student, program, course) returns ok == true exactly when the
\* student has passed every prerequisite course declared for the course in the program;
\* while a prerequisite A is unpassed it returns ok == false with a reason that contains A's
\* code, and once a passing grade for A is recorded the same call returns ok == true.
C14_Prerequisites ==
    CheckDone =>
        /\ call.ok <=> Unpassed(call.program, call.course) = {}
        /\ call.ok => call.reason.none
        /\ ~call.ok =>
              /\ ~call.reason.none
              /\ \A a \in Unpassed(call.program, call.course) :
                    \E i \in 1..Len(call.reason.joined) : call.reason.joined[i] = a

\* CS201 requires POL101: the check answers ok after a passing grade for POL101 was recorded
C14_Witness ==
    /\ CheckDone
    /\ call.program = ProgramBSc
    /\ call.course = "CS201"
    /\ Required(ProgramBSc, "CS201") = {"POL101"}
    /\ Passed("POL101")
    /\ call.ok

\* course codes in string order
CourseOrder == <<"CS201", "CS301", "POL101">>

SortedCourses(S) == SelectSeq(CourseOrder, LAMBDA c : c \in S)

\* C15: when check_prerequisites returns ok == false, its reason names the codes of all
\* missing prerequisite courses in sorted order, joined by commas, whatever the order in
\* which the prerequisite rows are stored or returned.
C15_AsStated ==
    (CheckDone /\ ~call.ok) =>
        call.reason.joined = SortedCourses(Unpassed(call.program, call.course))

SuggestDone == call.op = "suggest_courses_for_student"

\* the courses of the program's curriculum at a level and semester
CurriculumAt(program, current_level, semester) ==
    {curriculum_courses(program)[i].course :
        i \in {k \in 1..Len(curriculum_courses(program)) :
                 /\ curriculum_courses(program)[k].level = current_level
                 /\ curriculum_courses(program)[k].semester = semester}}

\* C16: suggest_courses_for_student(student, semester) returns exactly one eligibility
\* record for each curriculum course of the student's program at the student's current
\* level and the given semester that the student has not passed, no record for a course
\* already passed, each record's eligible and reason being the result of
\* check_prerequisites for that course; it returns an empty list when the student has no
\* program or no current level.
C16_Suggestions ==
    SuggestDone =>
        IF ~call.program.exists \/ call.current_level = NoLevel THEN call.suggestions = << >>
        ELSE /\ \A c \in Courses :
                   Cardinality({i \in 1..Len(call.suggestions) :
                                   call.suggestions[i].course_code = c}) =
                      IF /\ c \in CurriculumAt(call.program, call.current_level, call.semester)
                         /\ ~Passed(c)
                      THEN 1 ELSE 0
             /\ \A i \in 1..Len(call.suggestions) :
                   /\ call.suggestions[i].course_code \in Courses
                   /\ call.suggestions[i].eligible =
                         check_prerequisites(call.program, call.suggestions[i].course_code)[1]
                   /\ call.suggestions[i].reason =
                         check_prerequisites(call.program, call.suggestions[i].course_code)[2]

\* POL101 passed: it is left out, CS201 is suggested as eligible and CS301 as not eligible
C16_Witness ==
    /\ SuggestDone
    /\ call.program = ProgramBSc
    /\ call.current_level = Level100
    /\ call.semester = "FIRST"
    /\ Passed("POL101")
    /\ Len(call.suggestions) = 2
    /\ call.suggestions[1].course_code = "CS201" /\ call.suggestions[1].eligible
    /\ call.suggestions[2].course_code = CourseCS301 /\ ~call.suggestions[2].eligible

-----------------------------------------------------------------------------
(* Properties of the verification, checked under SpecVerification *)

Verified == call.op = "verify_transcript_code"

\* the durable record of the code just verified
VerifiedRecord == records[call.verification_code]

\* the record stores a canonical payload and a digest
HasPayloadAndDigest(record) ==
    /\ ~record.payload_json.canonical_payload.none
    /\ record.payload_json.canonical_payload.items # EmptyDict
    /\ ~record.document_hash.empty

\* C1: for an active record with a stored canonical payload and a stored digest, after one
\* field of the stored canonical payload was changed, verifying the code yields
\* valid == false with an error that names possible tampering (stated for a verification
\* that finds data for the code).
C1_AsStated ==
    (/\ Verified
     /\ ~call.data.none
     /\ call.verification_code \in DOMAIN records
     /\ is_active(VerifiedRecord)
     /\ HasPayloadAndDigest(VerifiedRecord)
     /\ issued[call.verification_code].altered) =>
        /\ ~call.valid
        /\ call.error = TamperError

\* C2: with nothing altered after issuance and the record neither expired nor revoked,
\* verifying the code returned by create_secure_transcript_data for a canonical payload P
\* returns valid == true with data that carries a canonical payload equal to P (stated for
\* an issuance and a verification during which the database answered).
C2_AsStated ==
    (/\ Verified
     /\ call.db_up
     /\ call.verification_code \in DOMAIN issued
     /\ issued[call.verification_code].content.is_dict
     /\ issued[call.verification_code].db_up
     /\ ~issued[call.verification_code].altered
     /\ now < issued[call.verification_code].at + verification_cache_timeout
     /\ call.verification_code \in DOMAIN records => VerifiedRecord.revoked_at = NoTime) =>
        /\ call.valid
        /\ ~call.data.none
        /\ ~call.data.data.canonical_payload.none
        /\ call.data.data.canonical_payload.items = issued[call.verification_code].content.items

\* is_active() is false exactly when revoked_at is set or expires_at is set and not in the
\* future
IsActiveExactly ==
    \A code \in DOMAIN records :
        is_active(records[code]) <=>
            ~(\/ records[code].revoked_at # NoTime
              \/ (records[code].expires_at # NoTime /\ records[code].expires_at <= now))

\* C3: verifying a code whose durable record is revoked or expired always returns
\* valid == false, also when the stored digest matches the stored payload (the case
\* stated here); is_active() is false exactly in those two cases.
C3_AsStated ==
    /\ IsActiveExactly
    /\ (/\ Verified
        /\ call.verification_code \in DOMAIN records
        /\ HasPayloadAndDigest(VerifiedRecord)
        /\ ~issued[call.verification_code].altered
        /\ \/ VerifiedRecord.revoked_at # NoTime
           \/ (VerifiedRecord.expires_at # NoTime /\ VerifiedRecord.expires_at <= now)) =>
          ~call.valid

\* the issued code's record is neither altered, nor expired, nor revoked
Untouched(code) ==
    /\ ~issued[code].altered
    /\ now < issued[code].at + verification_cache_timeout
    /\ code \in DOMAIN records => records[code].revoked_at = NoTime

\* C17: the cache mirror is best-effort on write: when the cache write fails while a
\* verification record is being stored (the database answering), the durable record is
\* still persisted and the issuance succeeds, so the issued code verifies as valid
\* afterwards.
C17_AsStated ==
    /\ \A code \in DOMAIN issued :
          (issued[code].db_up /\ ~issued[code].cache_up) => code \in DOMAIN records
    /\ (/\ Verified
        /\ call.db_up
        /\ call.verification_code \in DOMAIN issued
        /\ issued[call.verification_code].db_up
        /\ ~issued[call.verification_code].cache_up
        /\ Untouched(call.verification_code)) =>
          call.valid

\* C18: the durable store is the single source of truth: verify returns valid == true for
\* a code only if an active durable record for that code exists at that moment; a cached
\* entry alone (record never persisted, since revoked or expired, or the durable lookup
\* failing) never produces valid == true.
C18_AsStated ==
    (Verified /\ call.valid) =>
        /\ call.db_up
        /\ call.verification_code \in DOMAIN records
        /\ is_active(VerifiedRecord)

\* the digest, payload, generation timestamp and expiry of every existing record are
\* left as they are by the step
RecordsKept ==
    \A code \in DOMAIN records :
        /\ code \in DOMAIN records'
        /\ records'[code].document_hash = records[code].document_hash
        /\ records'[code].payload_json = records[code].payload_json
        /\ records'[code].generation_timestamp = records[code].generation_timestamp
        /\ records'[code].expires_at = records[code].expires_at

\* C21: once a verification record has been created, no operation other than revocation
\* changes it: verify is a pure read of the durable record, and a later issuance never
\* overwrites the digest, payload, generation timestamp or expiry of an existing record,
\* also when it produces a code equal to an existing one.
C21_AsStated ==
    [][call'.op \in {"verify_transcript_code", "create_secure_transcript_data"} => RecordsKept]_vars

-----------------------------------------------------------------------------
(* Properties of the verification of old rows, checked under SpecLegacy *)

\* C22: legacy carve-out: for a code whose durable record is present and active but whose
\* stored data lacks a canonical payload or lacks a digest, verify returns valid == true
\* without performing the digest comparison (stated for a verification during which the
\* database answered).
C22_AsStated ==
    (/\ Verified
     /\ call.db_up
     /\ call.verification_code \in DOMAIN records
     /\ is_active(VerifiedRecord)
     /\ ~HasPayloadAndDigest(VerifiedRecord)) =>
        call.valid

\* the carve-out of _validate_tamper_evidence: data that verify_transcript did return is
\* valid, whatever digest it carries, when it lacks a canonical payload or a digest
CarveOutOnData ==
    (/\ Verified
     /\ ~call.data.none
     /\ \/ call.data.data.canonical_payload.none
        \/ call.data.data.canonical_payload.items = EmptyDict
        \/ call.data.data.document_hash.empty) =>
        /\ call.valid
        /\ call.error = ""

-----------------------------------------------------------------------------
(* Properties of the canonical payload, checked under SpecPayload and SpecSnapshot *)

\* C19: any two builds from the same student, institution and enrollment and grade data
\* serialize through canonical_json to the same byte sequence and so to the same digest,
\* whatever the order in which the enrollments are supplied (here: the build from the
\* order supplied against the build from the enrollments in id order).
C19_AsStated ==
    call.op = "build_canonical_transcript_payload" =>
        LET other == canonical_json(build_canonical_transcript_payload(
                                        student, EnrollmentList, call.college_settings))
        IN /\ call.canonical = other
           /\ call.document_hash = generate_document_hash(other)

\* the payload captured when the transcript was generated
Captured(code) == issued[code].content.items

\* the payload a build from the rows as they are now gives
Rebuilt == build_canonical_transcript_payload(student, ordered_enrollments, CollegeSettings)

\* a verification that finds data for an issued code is valid and returns the payload
\* captured at generation time
SnapshotReturned ==
    (Verified /\ call.verification_code \in DOMAIN issued /\ ~call.data.none) =>
        /\ call.valid
        /\ ~call.data.data.canonical_payload.none
        /\ call.data.data.canonical_payload.items = Captured(call.verification_code)

\* what verify_transcript_code answers in a state, for each way the database and the
\* cache can answer
VerifyOutcome(code, db_up, cache_set_up, cache_get_up) ==
    verify_transcript_security(verify_transcript(code, db_up, cache_set_up, cache_get_up)[1])

\* a step that edits the enrollments, grades, grading scale or identity fields
EditsKeepOutcome ==
    dataVars' # dataVars =>
        \A code \in Codes, db_up \in BOOLEAN, cache_set_up \in BOOLEAN, cache_get_up \in BOOLEAN :
            VerifyOutcome(code, db_up, cache_set_up, cache_get_up)' =
                VerifyOutcome(code, db_up, cache_set_up, cache_get_up)

\* C20: the verification record holds a frozen snapshot: after issuance, an edit to the
\* student's enrollments, grades, grading scale or identity fields leaves the outcome of
\* verify for the issued code unchanged, and a verification that finds the code's data is
\* valid and returns the payload captured at generation time.
C20_Frozen == []SnapshotReturned /\ [][EditsKeepOutcome]_vars

\* verified as valid with the captured payload after an enrollment was added, a grade
\* entered, the scale edited and the student renamed
C20_Witness ==
    /\ Verified
    /\ call.valid
    /\ call.data.data.canonical_payload.items = Captured(call.verification_code)
    /\ Len(Captured(call.verification_code).enrollments) = 1
    /\ Captured(call.verification_code).enrollments[1].grade = "A"
    /\ Captured(call.verification_code).enrollments[1].grade_point = 400
    /\ Captured(call.verification_code).student.first_name = "Ada"
    /\ Len(Rebuilt.enrollments) = 2
    /\ Rebuilt.enrollments[1].grade = "F"
    /\ Rebuilt.student.first_name = "Adaeze"
    /\ scale[1].grade_point = 500

-----------------------------------------------------------------------------
(* Properties of the computations over rows with gaps, checked under SpecGaps *)

\* the enrollment has no grade row, or a letter with no entry on the grading scale
Gap(e) == ~HasGrade(e) \/ ~Resolved(e)

\* a graded letter with more than one scale row
DuplicatedLetter ==
    \E e \in EnrollmentIds : HasGrade(e) /\ Cardinality(ScaleRows(grades[e].grade)) > 1

\* the enrollment has a grade the gate lets through whose letter is worth points
Passing(e) ==
    /\ ~Gap(e)
    /\ ~Gated(e)
    /\ \E i \in ScaleRows(grades[e].grade) : scale[i].grade_point > 0

\* C24: configuration and data gaps are never fatal to aggregation: a missing grade row,
\* a grade letter with no grading-scale entry, an empty grading scale and a missing policy
\* row raise nothing in update_academic_metrics, compute_cgpa_for_program and the pass
\* predicates, and the affected enrollment does not count toward the grade-point sum.
\* update_academic_metrics leaves by an exception only for a letter with two scale rows
\* or a save the check constraints refuse; its point sum, the units of
\* compute_cgpa_for_program and both pass predicates take no enrollment with a gap.
C24_Gaps ==
    /\ call.op = "update_academic_metrics" =>
          /\ call.status = "MultipleObjectsReturned" => DuplicatedLetter
          /\ call.status = "IntegrityError" => ~ConstraintsHold(call.student)
          /\ call.status \in {"ok", "MultipleObjectsReturned", "IntegrityError"}
          /\ Completed =>
                call.total_grade_points =
                    SumPoints({e \in Counted : ~Gap(e) /\ ~Gated(e)})
    /\ AuditDone =>
          call.total_units_earned = SumUnits({e \in EnrollmentIds : ~Gap(e) /\ ~Gated(e)})
    /\ call.op = "passed" =>
          /\ call.student_passed_course <=>
                \E e \in EnrollmentIds : EnrollmentCourse(e) = call.course /\ Passing(e)
          /\ call.passed_course <=>
                \E e \in EnrollmentIds : EnrollmentCourse(e) = call.course /\ Passing(e)

\* update_academic_metrics ran and saved with no policy row, over an enrollment with a gap
\* on a scale that is not empty and an enrollment whose points are the whole sum
C24_Witness ==
    /\ call.op = "update_academic_metrics"
    /\ call.status = "ok"
    /\ ~call.policy_row
    /\ scale # << >>
    /\ \E e \in EnrollmentIds : HasGrade(e) /\ ~Resolved(e)
    /\ \E e \in EnrollmentIds :
          /\ ~Gap(e)
          /\ call.total_grade_points = EnrollmentUnits(e) * GradePointOf(e)
          /\ call.total_grade_points > 0
    /\ call.student.total_units_attempted = SumUnits(EnrollmentIds)

-----------------------------------------------------------------------------
(* Properties of the batch generation, checked under SpecBatch *)

Returned == batch.pc = "returned" /\ batch.students # {}

\* the errors recorded for one student
ErrorsOf(sid) ==
    {i \in 1..Len(batch.results.errors) : batch.results.errors[i][2] = sid}

\* C23: batch generation isolates failures and always returns partial results: under every
\* interleaving of the worker pool generate_batch_transcripts does not raise, a failure
\* or exception in one student's generation is recorded as one per-student error and the
\* other students' transcripts are generated all the same, and in the returned result
\* successful + failed equals the number of selected students.
C23_AsStated ==
    /\ batch.pc # "raised"
    /\ Returned =>
          /\ batch.results.successful + batch.results.failed = Cardinality(batch.students)
          /\ \A sid \in batch.students :
                Cardinality(ErrorsOf(sid)) = IF sid \in batch.written THEN 0 ELSE 1

-----------------------------------------------------------------------------
(* Properties of the registration, checked under SpecCapacity *)

\* C25: capacity blocks enrollment: for an offering with capacity c the number of
\* enrollments in that offering is at most c in every reachable state when enrollments are
\* created through enroll_student, also when two enroll_student operations for different
\* students are interleaved on the last free seat; an enrollment attempt on a full
\* offering creates nothing.
C25_AsStated ==
    /\ registration.offering.capacity # NoCapacity =>
          Cardinality(registration.roster) <= registration.offering.capacity
    /\ (/\ call.op = "enroll_student"
        /\ call.error = <<"Course offering is full (capacity reached).">>) =>
          ~call.created

-----------------------------------------------------------------------------
(* Properties of can_enroll, checked under SpecRegistration *)

\* the student has not passed the course: the pass predicate, for the student whose
\* grades are followed; the other students have no grade
NotPassed(sid, course) == sid # student.student_id \/ ~student_passed_course(course)

\* the prerequisite courses declared for the offering's course that the student has not
\* passed
UnpassedPrerequisites(sid) ==
    {prerequisites[i].prerequisite_course : i \in
        {j \in 1..Len(prerequisites) :
            /\ prerequisites[j].course = registration.offering.course
            /\ NotPassed(sid, prerequisites[j].prerequisite_course)}}

-----------------------------------------------------------------------------
(* Properties of the approval workflow, checked under SpecWorkflow *)

\* the status of the grade of enrolment e changes in the step
StatusMoves(e, from, to) ==
    /\ HasGrade(e)
    /\ grades[e].status = from
    /\ e \in DOMAIN grades'
    /\ grades'[e].status = to

\* C29: over any sequence of grade operations (the grade-entry, submit, approve and
\* reject views; the submit_grades, approve_grades and reject_grades commands) the status
\* of a grade becomes APPROVED or REJECTED only from SUBMITTED: no step moves a DRAFT
\* grade to APPROVED or an APPROVED grade to REJECTED.
C29_AsStated ==
    [][\A e \in 1..MaxEnrollments :
          \A from \in {STATUS_DRAFT, STATUS_REJECTED, STATUS_APPROVED} :
             \A to \in {STATUS_APPROVED, STATUS_REJECTED} \ {from} :
                ~StatusMoves(e, from, to)]_vars

\* the step is a score-entry operation on enrolment e
ScoreEntry(e) ==
    \/ \E sc \in EligibilityScores : grade_entry(e, sc[1], sc[2])
    \/ \E sc \in RegistrationScores : record_scores(e, sc[1], sc[2])

Locked(e) == HasGrade(e) /\ grades[e].status \in {STATUS_SUBMITTED, STATUS_APPROVED}

\* C30: while the status of a grade is SUBMITTED or APPROVED no score-entry operation
\* (the grade_entry view or the record_scores command) changes its CA score, exam score,
\* total or letter grade: the edit is refused and the grade is left as it was.
C30_AsStated ==
    [][\A e \in 1..MaxEnrollments :
          (Locked(e) /\ ScoreEntry(e)) => grades'[e] = grades[e]]_vars

====
